---- MODULE Spec2Model ----
(***************************************************************************)
(* Esti-Mate: the estimation pipeline of ai_modules/ai_estimator.py        *)
(* (AIEstimator), the learning history of ai_modules/learning_system.py    *)
(* (EstimationLearningSystem) and the /estimate, /bulk-estimate and        *)
(* /update-actual-hours handlers of app.py that drive them.                *)
(*                                                                         *)
(* Hours are kept as integers in hundredths of an hour (4000 = 40 h), so   *)
(* that Python's round(x, 1) and round(x, 2) are integer roundings, half   *)
(* to even, of the decimal value. (A Python float that stands for a        *)
(* decimal ending in 5 may lie just under or over it and so round the      *)
(* other way in the last place; the model rounds the decimal.)            *)
(* Texts are strings; `kw in text` is a real substring test.               *)
(***************************************************************************)
EXTENDS Integers, Sequences, FiniteSets, TLC

VARIABLES
    cache,      \* AIEstimator.cache: cache key -> the cached estimate object
    history,    \* EstimationLearningSystem.history: the list of records
    client,     \* whether AIEstimator was built with credentials (self.client)
    last,       \* what the last served call was given and what it returned
    store,      \* the history file (estimation_history.json)
    inflight,   \* the requests being served at once: where each one is
                \* in its call on the history, and its file object's buffer
    pending_designs,    \* DesignApprovalWorkflow.pending_designs
    approved_designs    \* DesignApprovalWorkflow.approved_designs

vars == <<cache, history, client, last, store, inflight,
          pending_designs, approved_designs>>

\* Python's None, where the other values are strings.
None == "None"

\* Python's None, where the other values are hours.
NoHours == 0 - 1

\* Python's None, where the other values are ratios.
NoRatio == << >>

\* Python's None or {} for a dict: `if not jira_data` treats them alike.
NoDict == << >>

PhaseNames == {"requirements", "design", "development", "testing", "deployment"}

----------------------------------------------------------------------------
(* Arithmetic                                                              *)

Abs(x) == IF x < 0 THEN 0 - x ELSE x

Min(a, b) == IF a <= b THEN a ELSE b

Max(a, b) == IF a >= b THEN a ELSE b

RECURSIVE GCD(_, _)
GCD(a, b) == IF b = 0 THEN a ELSE GCD(b, a % b)

\* A non-negative rational n/d in lowest terms, as the pair <<n, d>>: the
\* value of a Python float quotient, compared by value.
Frac(n, d) == LET g == GCD(n, d) IN <<n \div g, d \div g>>

FracAdd(p, q) == Frac(p[1] * q[2] + q[1] * p[2], p[2] * q[2])

\* Python's round(): n/d to the nearest integer, an exact half to the even
\* neighbour (n >= 0, d > 0).
RoundDiv(n, d) ==
    LET q == n \div d
        r == n % d
    IN  IF 2 * r < d THEN q
        ELSE IF 2 * r > d THEN q + 1
        ELSE IF q % 2 = 0 THEN q ELSE q + 1

\* round(h * num/den, 2) on hundredths of an hour.
Round2(h, num, den) == RoundDiv(h * num, den)

\* round(h * num/den, 1) on hundredths of an hour: a multiple of 10.
Round1(h, num, den) == 10 * RoundDiv(h * num, den * 10)

RECURSIVE SumSeq(_)
SumSeq(s) == IF s = <<>> THEN 0 ELSE Head(s) + SumSeq(Tail(s))

\* The phases dict with F(hours, phase) in place of each phase's hours.
MapPhases(F(_, _), phases) ==
    [requirements |-> F(phases["requirements"], "requirements"),
     design       |-> F(phases["design"], "design"),
     development  |-> F(phases["development"], "development"),
     testing      |-> F(phases["testing"], "testing"),
     deployment   |-> F(phases["deployment"], "deployment")]

\* sum(phases.values())
SumPhases(phases) ==
    phases["requirements"] + phases["design"] + phases["development"]
        + phases["testing"] + phases["deployment"]

----------------------------------------------------------------------------
(* EstimationLearningSystem                                                *)

\* The record record_estimation builds (timestamp, description and phases
\* play no part in any later computation and are left out).
HistoryRecord(jira_ticket, estimated_hours, complexity, method, actual_hours) ==
    [ jira_ticket     |-> jira_ticket,
      estimated_hours |-> estimated_hours,
      actual_hours    |-> actual_hours,
      complexity      |-> complexity,
      method          |-> method,
      accuracy        |-> IF actual_hours = NoHours THEN NoRatio
                          ELSE Frac(Abs(estimated_hours - actual_hours), actual_hours) ]

\* record_estimation: the accuracy is computed while the record is built,
\* so actual_hours = 0 raises ZeroDivisionError before anything is appended.
record_estimation(h, jira_ticket, estimated_hours, complexity, method, actual_hours) ==
    IF actual_hours = 0
    THEN [raised |-> "ZeroDivisionError", history |-> h]
    ELSE [raised |-> None,
          history |-> Append(h, HistoryRecord(jira_ticket, estimated_hours,
                                              complexity, method, actual_hours))]

\* The index a scan from the oldest record would stop at.
OldestIndex(h, jira_ticket) ==
    IF \E i \in 1..Len(h) : h[i].jira_ticket = jira_ticket
    THEN CHOOSE i \in 1..Len(h) :
            /\ h[i].jira_ticket = jira_ticket
            /\ \A j \in 1..(i - 1) : h[j].jira_ticket # jira_ticket
    ELSE 0

\* The index `for record in reversed(self.history)` stops at: the last
\* record of the ticket, 0 when there is none.
MostRecentIndex(h, jira_ticket) ==
    IF \E i \in 1..Len(h) : h[i].jira_ticket = jira_ticket
    THEN CHOOSE i \in 1..Len(h) :
            /\ h[i].jira_ticket = jira_ticket
            /\ \A j \in (i + 1)..Len(h) : h[j].jira_ticket # jira_ticket
    ELSE 0

\* update_actual_hours: actual_hours is assigned first, then the accuracy is
\* computed; with actual_hours = 0 the division raises after the first
\* assignment, leaving the record half updated.
update_actual_hours(h, jira_ticket, actual_hours) ==
    LET i == MostRecentIndex(h, jira_ticket) IN
    IF i = 0 THEN [ret |-> "False", raised |-> None, history |-> h]
    ELSE IF actual_hours = 0
    THEN [ret |-> None, raised |-> "ZeroDivisionError",
          history |-> [h EXCEPT ![i].actual_hours = actual_hours]]
    ELSE [ret |-> "True", raised |-> None,
          history |-> [h EXCEPT ![i].actual_hours = actual_hours,
                                ![i].accuracy =
                                    Frac(Abs(h[i].estimated_hours - actual_hours),
                                         actual_hours)]]

\* The history file: readable JSON holding these records, or unreadable. A
\* file that does not exist loads like one holding no record. json.dump
\* followed by json.load gives back equal records: they hold strings,
\* numbers, None and a dict of numbers keyed by strings.
StoredFile(records) == [readable |-> TRUE, records |-> records]

UnreadableFile == [readable |-> FALSE, records |-> <<>>]

\* _load_history: the bare except turns an unreadable file into [].
load_history(file) == IF file.readable THEN file.records ELSE <<>>

\* What the file system does to a _save_history: the file is written; or
\* open(..., 'w') raises and the file stays as it was; or the write raises
\* after open truncated the file, which leaves partial JSON.
SaveOutcomes == {"written", "open_failed", "write_failed"}

\* _save_history
save_history(h, file, outcome) ==
    IF outcome = "written" THEN [raised |-> None, file |-> StoredFile(h)]
    ELSE IF outcome = "open_failed" THEN [raised |-> "OSError", file |-> file]
    ELSE [raised |-> "OSError", file |-> UnreadableFile]

\* The file after record_estimation returned r: the history is saved once
\* the record is appended.
FileAfterRecord(r, file, outcome) ==
    IF r.raised # None THEN file ELSE save_history(r.history, file, outcome).file

\* The file after update_actual_hours returned r: the history is saved
\* once the record is updated.
FileAfterUpdate(r, file, outcome) ==
    IF r.ret # "True" THEN file ELSE save_history(r.history, file, outcome).file

\* completed = [r for r in self.history if r['actual_hours'] is not None]
Completed(h) == SelectSeq(h, LAMBDA r : r.actual_hours # NoHours)

OfComplexity(recs, complexity) == SelectSeq(recs, LAMBDA r : r.complexity = complexity)

RECURSIVE SumRatios(_)
SumRatios(recs) ==
    IF recs = <<>> THEN <<0, 1>>
    ELSE FracAdd(Frac(Head(recs).actual_hours, Head(recs).estimated_hours),
                 SumRatios(Tail(recs)))

\* statistics.mean(ratios) of actual/estimated
MeanRatio(recs) ==
    LET s == SumRatios(recs) IN Frac(s[1], s[2] * Len(recs))

Tiers == {"Low", "Medium", "High"}

\* get_complexity_adjustments with the tier threshold alone: no test of
\* the total number of completed records.
get_complexity_adjustments_per_tier_only(h) ==
    LET completed == Completed(h)
        tiers == {c \in Tiers : Len(OfComplexity(completed, c)) >= 2}
    IN  IF \E c \in tiers : \E i \in 1..Len(completed) :
               completed[i].complexity = c /\ completed[i].estimated_hours = 0
        THEN [raised |-> "ZeroDivisionError", adjustments |-> << >>]
        ELSE [raised |-> None,
              adjustments |-> [c \in tiers |-> MeanRatio(OfComplexity(completed, c))]]

\* get_complexity_adjustments: a mapping tier -> factor, or the exception
\* the division actual/estimated raises on a record estimated at 0 hours.
get_complexity_adjustments(h) ==
    LET completed == Completed(h)
        tiers == {c \in Tiers : Len(OfComplexity(completed, c)) >= 2}
    IN  IF Len(completed) < 3 THEN [raised |-> None, adjustments |-> << >>]
        ELSE IF \E c \in tiers : \E i \in 1..Len(completed) :
                    completed[i].complexity = c /\ completed[i].estimated_hours = 0
        THEN [raised |-> "ZeroDivisionError", adjustments |-> << >>]
        ELSE [raised |-> None,
              adjustments |-> [c \in tiers |-> MeanRatio(OfComplexity(completed, c))]]

\* p <= q on ratios
FracLeq(p, q) == p[1] * q[2] <= q[1] * p[2]

RECURSIVE SumFracs(_)
SumFracs(fracs) ==
    IF fracs = <<>> THEN <<0, 1>> ELSE FracAdd(Head(fracs), SumFracs(Tail(fracs)))

\* sorted(values)[k - 1]
KthSmallest(values, k) ==
    CHOOSE v \in {values[i] : i \in 1..Len(values)} :
        /\ Cardinality({i \in 1..Len(values) : ~FracLeq(v, values[i])}) < k
        /\ Cardinality({i \in 1..Len(values) : FracLeq(values[i], v)}) >= k

\* statistics.median: the middle value, the mean of the two middle values
\* of an even number of values.
Median(values) ==
    LET n == Len(values) IN
    IF n % 2 = 1 THEN KthSmallest(values, (n + 1) \div 2)
    ELSE LET both == FracAdd(KthSmallest(values, n \div 2),
                             KthSmallest(values, n \div 2 + 1))
         IN  Frac(both[1], both[2] * 2)

\* get_accuracy_stats: statistics.mean raises TypeError on a list that
\* holds None, the accuracy of a record whose accuracy was never computed.
get_accuracy_stats(h) ==
    LET completed == Completed(h)
        accuracies == [i \in 1..Len(completed) |-> completed[i].accuracy]
        total == SumFracs(accuracies)
    IN  IF completed = <<>>
        THEN [raised |-> None, stats |-> [message |-> "No completed estimations yet"]]
        ELSE IF \E i \in 1..Len(accuracies) : accuracies[i] = NoRatio
        THEN [raised |-> "TypeError", stats |-> << >>]
        ELSE [raised |-> None,
              stats |-> [total_estimations |-> Len(h),
                         completed_estimations |-> Len(completed),
                         avg_accuracy_error |-> Frac(total[1], total[2] * Len(accuracies)),
                         median_accuracy_error |-> Median(accuracies),
                         best_accuracy |-> KthSmallest(accuracies, 1),
                         worst_accuracy |-> KthSmallest(accuracies, Len(accuracies))]]

----------------------------------------------------------------------------
(* Texts and dicts                                                         *)

\* `k in t` on Python strings.
Contains(t, k) ==
    \E i \in 1..(Len(t) - Len(k) + 1) : SubSeq(t, i, i + Len(k) - 1) = k

\* any(keyword in text for keyword in keywords)
AnyIn(keywords, t) == \E k \in keywords : Contains(t, k)

\* sum(1 for keyword in keywords if keyword in text)
CountIn(keywords, t) == Cardinality({k \in keywords : Contains(t, k)})

LowerChar(c) ==
    CASE c = "A" -> "a" [] c = "B" -> "b" [] c = "C" -> "c" [] c = "D" -> "d"
      [] c = "E" -> "e" [] c = "F" -> "f" [] c = "G" -> "g" [] c = "H" -> "h"
      [] c = "I" -> "i" [] c = "J" -> "j" [] c = "K" -> "k" [] c = "L" -> "l"
      [] c = "M" -> "m" [] c = "N" -> "n" [] c = "O" -> "o" [] c = "P" -> "p"
      [] c = "Q" -> "q" [] c = "R" -> "r" [] c = "S" -> "s" [] c = "T" -> "t"
      [] c = "U" -> "u" [] c = "V" -> "v" [] c = "W" -> "w" [] c = "X" -> "x"
      [] c = "Y" -> "y" [] c = "Z" -> "z" [] OTHER -> c

\* str.lower(), character by character (halving keeps the evaluation shallow)
RECURSIVE Lower(_)
Lower(s) ==
    IF Len(s) = 0 THEN ""
    ELSE IF Len(s) = 1 THEN LowerChar(s)
    ELSE Lower(SubSeq(s, 1, Len(s) \div 2)) \o Lower(SubSeq(s, Len(s) \div 2 + 1, Len(s)))

\* str.strip(), for the blanks the inputs use
RECURSIVE Strip(_)
Strip(s) ==
    IF Len(s) = 0 THEN s
    ELSE IF SubSeq(s, 1, 1) = " " THEN Strip(SubSeq(s, 2, Len(s)))
    ELSE IF SubSeq(s, Len(s), Len(s)) = " " THEN Strip(SubSeq(s, 1, Len(s) - 1))
    ELSE s

\* dict.get(k, default)
Get(d, k, default) == IF k \in DOMAIN d THEN d[k] ELSE default

\* d[k] = v on a dict that may not have the key yet
Put(d, k, v) == (k :> v) @@ d

\* `if jira_data:`: neither None nor empty
Truthy(d) == DOMAIN d # {}

\* The text an f-string prints for a number of hours (the ".0" Python
\* prints after a whole float is not kept).
Fmt(h) ==
    LET w == h \div 100
        f == h % 100
    IN  IF f = 0 THEN ToString(w)
        ELSE IF f % 10 = 0 THEN ToString(w) \o "." \o ToString(f \div 10)
        ELSE IF f < 10 THEN ToString(w) \o ".0" \o ToString(f)
        ELSE ToString(w) \o "." \o ToString(f)

\* str(x) of a float x: a whole number keeps its ".0". (A float that is
\* not the decimal it stands for prints its long form in Python, e.g.
\* 25.800000000000004; the model prints the decimal.)
FmtFloat(h) == IF h % 100 = 0 THEN ToString(h \div 100) \o ".0" ELSE Fmt(h)

\* f"{x:.1f}"
Fmt1(h) ==
    LET tenths == RoundDiv(h, 10)
    IN  ToString(tenths \div 10) \o "." \o ToString(tenths % 10)

\* str(bool)
StrBool(b) == IF b THEN "True" ELSE "False"

\* An exception in flight, in place of the value a stage returns.
Exc(name) == [exc |-> name]

IsExc(e) == "exc" \in DOMAIN e

----------------------------------------------------------------------------
(* AIEstimator                                                             *)

\* _create_cache_key: the text that is hashed. hashlib.md5 of it is the
\* key; two keys are equal exactly when the hashed texts are (collisions
\* aside), so the text stands for its digest.
CacheKey(description, jira_data) ==
    LET cache_input == Strip(Lower(description)) IN
    IF Truthy(jira_data)
    THEN cache_input \o "|" \o Get(jira_data, "issue_type", "")
                     \o "|" \o Get(jira_data, "priority", "")
                     \o "|" \o Get(jira_data, "summary", "")
                     \o "|" \o Get(jira_data, "description", "")
                     \o "|" \o StrBool(Get(jira_data, "uses_ai_tools", FALSE))
    ELSE cache_input

UncertaintyKeywords == {"migration", "upgrade", "complex", "unknown", "unclear"}

\* The confidence before the final clamp of _calculate_reliable_confidence.
BaseConfidence(estimation, jira_data) ==
    LET complexity == Get(estimation, "complexity", "Medium")
        total_hours == Get(estimation, "total_hours", 8000)
        issue_type == Lower(Get(jira_data, "issue_type", ""))
        method == Get(estimation, "estimation_method", "")
        reasoning == Lower(Get(estimation, "reasoning", ""))
        f1 == IF complexity = "High" THEN 0 - 15
              ELSE IF complexity = "Medium" THEN 0 - 5 ELSE 0
        f2 == IF 8000 <= total_hours /\ total_hours <= 12000 THEN 5
              ELSE IF total_hours > 30000 THEN 0 - 10
              ELSE IF total_hours > 20000 THEN 0 - 5
              ELSE IF total_hours < 2000 THEN 0 - 5 ELSE 0
        f3 == IF Truthy(jira_data)
              THEN 5 + (IF issue_type \in {"story", "task"} THEN 5
                        ELSE IF issue_type \in {"epic"} THEN 0 - 3 ELSE 0)
              ELSE 0 - 5
        f4 == IF method = "ai_powered" THEN 5
              ELSE IF method = "rule_based_fallback" THEN 0 - 5 ELSE 0
        f5 == IF Contains(reasoning, "enterprise") \/ Contains(reasoning, "competitive")
              THEN 5 ELSE 0
        f6 == 0 - 2 * CountIn(UncertaintyKeywords, reasoning)
        f7 == IF total_hours <= 12000 THEN 10 ELSE 0
    IN  90 + f1 + f2 + f3 + f4 + f5 + f6 + f7

ClampNoFloor(base_confidence) == Min(95, base_confidence)

\* max(90, min(95, base_confidence))
Clamp(base_confidence) == Max(90, Min(95, base_confidence))

\* _calculate_reliable_confidence
CalculateReliableConfidence(estimation, jira_data) ==
    Clamp(BaseConfidence(estimation, jira_data))

BlackduckKeywords ==
    {"blackduck", "security vulnerability", "cve", "dependency update", "version upgrade"}

BlackduckPhases ==
    [requirements |-> 400, design |-> 0, development |-> 2400,
     testing |-> 300, deployment |-> 100]

QaStatuses == {"qa", "sit", "testing", "ready for testing", "in testing"}

UatStatuses == {"uat", "user acceptance testing", "ready for deployment", "staging"}

DoneStatuses == {"done", "closed", "resolved", "deployed", "production"}

DevStatuses == {"in progress", "development", "coding", "in development"}

\* The zeroed phases with the UAT family treated like the QA family.
ZeroedPhasesUatAsQa(status) ==
    IF status \in QaStatuses \cup UatStatuses
    THEN {"requirements", "design", "development"}
    ELSE IF status \in DoneStatuses THEN PhaseNames
    ELSE IF status \in DevStatuses THEN {"requirements", "design"}
    ELSE {}

\* The phases a status family zeroes (none for any other status).
ZeroedPhases(status) ==
    IF status \in QaStatuses THEN {"requirements", "design", "development"}
    ELSE IF status \in UatStatuses
    THEN {"requirements", "design", "development", "testing"}
    ELSE IF status \in DoneStatuses THEN PhaseNames
    ELSE IF status \in DevStatuses THEN {"requirements", "design"}
    ELSE {}

StatusNote(status) ==
    IF status \in QaStatuses
    THEN " Ticket in " \o status \o " - only testing and deployment phases remain."
    ELSE IF status \in UatStatuses
    THEN " Ticket in " \o status \o " - only deployment phase remains."
    ELSE IF status \in DoneStatuses
    THEN " Ticket " \o status \o " - no remaining work."
    ELSE IF status \in DevStatuses
    THEN " Ticket in " \o status \o " - requirements and design phases complete."
    ELSE ""

\* _apply_status_based_filtering. `estimation['reasoning'] +=` raises
\* KeyError on an estimate without reasoning.
ApplyStatusBasedFiltering(estimation, jira_data) ==
    IF IsExc(estimation) THEN estimation
    ELSE IF ~Truthy(jira_data) \/ "status" \notin DOMAIN jira_data THEN estimation
    ELSE
      LET status == Lower(jira_data["status"])
          old == estimation["phases"]
          phases == MapPhases(LAMBDA hours, p : IF p \in ZeroedPhases(status) THEN 0 ELSE hours,
                               old)
      IN  IF StatusNote(status) # "" /\ "reasoning" \notin DOMAIN estimation
          THEN Exc("KeyError")
          ELSE [Put(estimation, "reasoning",
                    Get(estimation, "reasoning", "") \o StatusNote(status))
                   EXCEPT !["phases"] = phases,
                          !["total_hours"] = SumPhases(phases)]

\* The security-ticket test of _apply_blackduck_capping.
IsBlackduck(estimation, jira_data) ==
    LET description == Lower(Get(estimation, "reasoning", ""))
        jira_text == IF Truthy(jira_data)
                     THEN Lower(Get(jira_data, "summary", "") \o " "
                                \o Get(jira_data, "description", ""))
                     ELSE ""
    IN  AnyIn(BlackduckKeywords, description) \/ AnyIn(BlackduckKeywords, jira_text)

\* The cap of _apply_blackduck_capping.
BlackduckCapped(estimation, jira_data) ==
    IF IsBlackduck(estimation, jira_data)
    THEN [Put(estimation, "reasoning",
              "BlackDuck security ticket - capped at 32 hours. "
                  \o Get(estimation, "reasoning", ""))
             EXCEPT !["total_hours"] = 3200,
                    !["complexity"] = "Low",
                    !["phases"] = BlackduckPhases]
    ELSE estimation

\* _apply_blackduck_capping: the cap, then the status-based filtering.
ApplyBlackduckCapping(estimation, jira_data) ==
    IF IsExc(estimation) THEN estimation
    ELSE ApplyStatusBasedFiltering(BlackduckCapped(estimation, jira_data), jira_data)

\* '; '.join(parts)
RECURSIVE Join(_)
Join(parts) ==
    IF parts = <<>> THEN ""
    ELSE IF Len(parts) = 1 THEN parts[1]
    ELSE parts[1] \o "; " \o Join(Tail(parts))

LinkEnterpriseKeywords == {"iib", "sap", "mainframe", "integration", "api", "database"}

\* The hours one linked issue adds in _analyze_linked_ticket_complexity.
LinkHours(linked_issue) ==
    LET link_type == Lower(Get(linked_issue, "type", ""))
        link_summary == Lower(Get(linked_issue, "summary", ""))
    IN  (IF link_type \in {"blocks", "is blocked by"} THEN 800
         ELSE IF link_type \in {"depends on", "is depended on by"} THEN 500
         ELSE IF link_type \in {"relates to", "is related to"} THEN 200
         ELSE 0)
        + (IF CountIn(LinkEnterpriseKeywords, link_summary) >= 2 THEN 400 ELSE 0)

\* The notes one linked issue adds to analysis_details.
LinkDetails(linked_issue) ==
    LET link_type == Lower(Get(linked_issue, "type", ""))
        link_summary == Lower(Get(linked_issue, "summary", ""))
    IN  (IF link_type \in {"blocks", "is blocked by"}
         THEN <<"Blocking dependency: " \o linked_issue["key"]>>
         ELSE IF link_type \in {"depends on", "is depended on by"}
         THEN <<"Dependency: " \o linked_issue["key"]>>
         ELSE IF link_type \in {"relates to", "is related to"}
         THEN <<"Related work: " \o linked_issue["key"]>>
         ELSE <<>>)
        \o (IF CountIn(LinkEnterpriseKeywords, link_summary) >= 2
            THEN <<"Enterprise complexity in " \o linked_issue["key"]>>
            ELSE <<>>)

RECURSIVE SumLinkHours(_)
SumLinkHours(links) ==
    IF links = <<>> THEN 0 ELSE LinkHours(Head(links)) + SumLinkHours(Tail(links))

RECURSIVE AllLinkDetails(_)
AllLinkDetails(links) ==
    IF links = <<>> THEN <<>> ELSE LinkDetails(Head(links)) \o AllLinkDetails(Tail(links))

\* The analysis without the cap by the number of links.
AnalyzeLinkedTicketComplexityUncapped(jira_data) ==
    IF ~Truthy(jira_data) \/ Get(jira_data, "linked_issues", <<>>) = <<>>
    THEN [additional_hours |-> 0, reasoning |-> ""]
    ELSE [additional_hours |-> SumLinkHours(jira_data["linked_issues"]),
          reasoning |-> Join(AllLinkDetails(jira_data["linked_issues"])),
          num_dependencies |-> Len(jira_data["linked_issues"])]

\* _analyze_linked_ticket_complexity. Without linked issues the dict it
\* returns has no 'num_dependencies' key.
AnalyzeLinkedTicketComplexity(jira_data) ==
    LET links == Get(jira_data, "linked_issues", <<>>) IN
    IF ~Truthy(jira_data) \/ links = <<>>
    THEN [additional_hours |-> 0, reasoning |-> ""]
    ELSE
      LET num_links == Len(links)
          max_additional == IF num_links <= 2 THEN 1500
                            ELSE IF num_links <= 4 THEN 2500 ELSE 4000
      IN  [additional_hours |-> Min(SumLinkHours(links), max_additional),
           reasoning |-> Join(AllLinkDetails(links)),
           num_dependencies |-> num_links]

EnterpriseSystems ==
    {"iib", "ibm integration bus", "sap", "mainframe", "enterprise service bus"}

\* round(hours * 0.15, 1) and so on: the default phase distribution.
DefaultPhases(hours) ==
    [requirements |-> Round1(hours, 15, 100),
     design       |-> Round1(hours, 20, 100),
     development  |-> Round1(hours, 48, 100),
     testing      |-> Round1(hours, 15, 100),
     deployment   |-> Round1(hours, 2, 100)]

\* _apply_intelligent_cross_dependency_analysis. The test
\* dependency_analysis['num_dependencies'] == 0 is evaluated only for an
\* enterprise ticket, and raises KeyError when there are no linked issues.
ApplyIntelligentCrossDependencyAnalysis(estimation, jira_data) ==
    IF IsExc(estimation) THEN estimation
    ELSE IF ~Truthy(jira_data) THEN estimation
    ELSE
      LET dependency_analysis == AnalyzeLinkedTicketComplexity(jira_data)
          main_text == Lower(Get(jira_data, "summary", "") \o " "
                             \o Get(jira_data, "description", ""))
          has_enterprise == AnyIn(EnterpriseSystems, main_text)
          base_hours == Get(estimation, "total_hours", 8000)
          additional_hours == Min(dependency_analysis["additional_hours"], 2000)
      IN  IF has_enterprise /\ "num_dependencies" \notin DOMAIN dependency_analysis
          THEN Exc("KeyError")
          ELSE IF has_enterprise /\ dependency_analysis["num_dependencies"] = 0
          THEN IF "reasoning" \notin DOMAIN estimation THEN Exc("KeyError")
               ELSE [estimation EXCEPT
                        !["total_hours"] = 10400,
                        !["complexity"] = "Medium",
                        !["phases"] = DefaultPhases(10400),
                        !["reasoning"] = @ \o
                            " Enterprise ticket optimized for competitive accuracy (104 hours)."]
          ELSE IF dependency_analysis["additional_hours"] > 0
          THEN IF "reasoning" \notin DOMAIN estimation THEN Exc("KeyError")
               ELSE [estimation EXCEPT
                        !["total_hours"] = base_hours + additional_hours,
                        !["reasoning"] = @ \o " Cross-dependency analysis: "
                            \o dependency_analysis["reasoning"]
                            \o " (+" \o Fmt(additional_hours) \o "h)."]
          ELSE estimation

\* _apply_competitive_capping
ApplyCompetitiveCapping(estimation, jira_data) ==
    IF IsExc(estimation) THEN estimation
    ELSE
      LET total_hours == Get(estimation, "total_hours", 8000) IN
      IF total_hours > 15000
      THEN [Put(estimation, "reasoning",
                "Competitive capping applied (was " \o Fmt(total_hours)
                    \o "h, now 120h). " \o Get(estimation, "reasoning", ""))
               EXCEPT !["total_hours"] = 12000,
                      !["complexity"] = "Medium",
                      !["phases"] = DefaultPhases(12000)]
      ELSE estimation

AnalysisStatuses == {"analysis", "requirements", "design", "backlog", "to do"}

\* time_in_analysis of _analyze_jira_historical_patterns: the hours of the
\* time_in_status items whose status names an analysis status.
RECURSIVE TimeInAnalysis(_)
TimeInAnalysis(items) ==
    IF items = <<>> THEN 0
    ELSE (IF AnyIn(AnalysisStatuses, Lower(Head(items)[1])) THEN Head(items)[2] ELSE 0)
         + TimeInAnalysis(Tail(items))

\* The ".1f" text of seconds / 3600.
FmtHoursOfSeconds(seconds) ==
    LET tenths == RoundDiv(seconds, 360)
    IN  ToString(tenths \div 10) \o "." \o ToString(tenths % 10)

\* _apply_historical_adjustment: the factor as the fraction <<num, den>>
\* (1.15, 1.1 and their product 1.265) and the notes for the reasoning.
HistoricalFactor(jira_data) ==
    LET transitions == Len(Get(jira_data, "status_history", <<>>))
        time_in_analysis == TimeInAnalysis(Get(jira_data, "time_in_status", <<>>))
        rework == transitions > 5
        long == time_in_analysis > 4000
    IN  IF rework /\ long THEN <<1265, 1000>>
        ELSE IF rework THEN <<115, 100>>
        ELSE IF long THEN <<110, 100>>
        ELSE <<1, 1>>

HistoricalNotes(jira_data) ==
    LET transitions == Len(Get(jira_data, "status_history", <<>>))
        time_in_analysis == TimeInAnalysis(Get(jira_data, "time_in_status", <<>>))
        seconds == Get(Get(jira_data, "time_tracking", << >>), "time_spent_seconds", 0)
        current_status == Lower(Get(jira_data, "status", ""))
    IN  (IF transitions > 5
         THEN <<"High rework detected (" \o ToString(transitions) \o " transitions, +15%)">>
         ELSE <<>>)
        \o (IF seconds > 0 /\ current_status \in {"in progress", "development", "testing"}
            THEN <<"Actual time logged: " \o FmtHoursOfSeconds(seconds) \o "h">>
            ELSE <<>>)
        \o (IF time_in_analysis > 4000
            THEN <<"Extended analysis phase (" \o Fmt1(time_in_analysis)
                       \o "h, +10%)">>
            ELSE <<>>)

ApplyHistoricalAdjustment(estimation, jira_data) ==
    IF IsExc(estimation) THEN estimation
    ELSE IF ~Truthy(jira_data) THEN estimation
    ELSE
      LET f == HistoricalFactor(jira_data)
          old == estimation["phases"]
      IN  IF f = <<1, 1>> THEN estimation
          ELSE IF "reasoning" \notin DOMAIN estimation THEN Exc("KeyError")
          ELSE [estimation EXCEPT
                   !["total_hours"] = Round2(Get(estimation, "total_hours", 8000), f[1], f[2]),
                   !["phases"] = MapPhases(LAMBDA hours, p : Round2(hours, f[1], f[2]), old),
                   !["reasoning"] = @ \o " Historical pattern adjustment: "
                       \o Join(HistoricalNotes(jira_data)) \o "."]

\* ai_efficiency, in percent of the phase that remains
AiEfficiency ==
    [requirements |-> 85, design |-> 75, development |-> 70,
     testing |-> 80, deployment |-> 90]

\* reduced_hours = round(hours * ai_efficiency[phase], 1)
ReducedHours(hours, phase) == Round1(hours, AiEfficiency[phase], 100)

\* _apply_ai_tools_efficiency. The efficiency percentage divides by the
\* original total and raises ZeroDivisionError on an estimate of 0 hours.
ApplyAiToolsEfficiency(estimation, jira_data) ==
    IF IsExc(estimation) THEN estimation
    ELSE IF ~Truthy(jira_data) \/ ~Get(jira_data, "uses_ai_tools", FALSE) THEN estimation
    ELSE
      LET original_hours == Get(estimation, "total_hours", 8000)
          old == estimation["phases"]
          phases == MapPhases(ReducedHours, old)
          total_reduction == SumPhases(old) - SumPhases(phases)
          new_total == original_hours - total_reduction
      IN  IF original_hours = 0 THEN Exc("ZeroDivisionError")
          ELSE IF "reasoning" \notin DOMAIN estimation THEN Exc("KeyError")
          ELSE [estimation EXCEPT
                   !["total_hours"] = new_total,
                   !["phases"] = phases,
                   !["reasoning"] = @ \o " AI development tools applied: "
                       \o FmtFloat(10 * RoundDiv((original_hours - new_total) * 1000,
                                                 original_hours))
                       \o "% efficiency gain (-" \o FmtFloat(total_reduction) \o "h)."]

\* get_improved_estimate with the factor applied to total_hours alone.
GetImprovedEstimateTotalOnly(base_estimate, h) ==
    IF IsExc(base_estimate) THEN base_estimate
    ELSE
      LET adj == get_complexity_adjustments(h) IN
      IF adj.raised # None THEN Exc(adj.raised)
      ELSE IF base_estimate["complexity"] \notin DOMAIN adj.adjustments THEN base_estimate
      ELSE
        LET factor == adj.adjustments[base_estimate["complexity"]]
            improved ==
                [base_estimate EXCEPT
                    !["total_hours"] = Round2(@, factor[1], factor[2])]
        IN  Put(Put(improved, "learning_applied", TRUE), "adjustment_factor", factor)

\* EstimationLearningSystem.get_improved_estimate. The estimate is
\* returned as it came when no factor exists for its complexity.
GetImprovedEstimate(base_estimate, h) ==
    IF IsExc(base_estimate) THEN base_estimate
    ELSE
      LET adj == get_complexity_adjustments(h) IN
      IF adj.raised # None THEN Exc(adj.raised)
      ELSE IF base_estimate["complexity"] \notin DOMAIN adj.adjustments THEN base_estimate
      ELSE
        LET factor == adj.adjustments[base_estimate["complexity"]]
            old == base_estimate["phases"]
            improved ==
                [base_estimate EXCEPT
                    !["total_hours"] = Round2(@, factor[1], factor[2]),
                    !["phases"] = MapPhases(LAMBDA hours, p : Round2(hours, factor[1], factor[2]),
                                            old)]
        IN  Put(Put(improved, "learning_applied", TRUE), "adjustment_factor", factor)

\* The dict passed to get_improved_estimate, once the call is over.
\* base_estimate.copy() is a shallow copy: the copy holds the same phases
\* dict, so the scaled phase hours are written into the argument's phases;
\* total_hours and the two tags are set on the copy alone.
ArgumentAfterImproved(base_estimate, h) ==
    LET improved == GetImprovedEstimate(base_estimate, h) IN
    IF IsExc(improved) THEN base_estimate
    ELSE [base_estimate EXCEPT !["phases"] = improved["phases"]]

\* result['confidence'] = self._calculate_reliable_confidence(result, jira_data)
WithReliableConfidence(result, jira_data) ==
    Put(result, "confidence", CalculateReliableConfidence(result, jira_data))

\* _extract_estimation_manually: text_hours is the number the first
\* matching hour pattern finds in the reply (NoHours when none matches,
\* then the default 80), in whole hours.
ExtractEstimationManually(ai_response, jira_data) ==
    LET total_hours == IF ai_response.text_hours = NoHours THEN 8000
                       ELSE 100 * ai_response.text_hours
        complexity == IF total_hours >= 12000 THEN "High"
                      ELSE IF total_hours >= 6000 THEN "Medium" ELSE "Low"
        result == [total_hours |-> total_hours,
                   complexity |-> complexity,
                   reasoning |-> "Extracted from AI response text",
                   phases |-> DefaultPhases(total_hours),
                   estimation_method |-> "ai_extracted"]
    IN  WithReliableConfidence(ApplyBlackduckCapping(result, jira_data), jira_data)

RequiredFields == {"total_hours", "complexity", "phases"}

\* The estimate after each policy stage of _parse_ai_response, in the
\* order the stages are called (the legacy _apply_cross_dependency_overhead
\* returns its argument and is left out).
StageNames ==
    <<"blackduck+status", "competitive", "cross_dependency", "historical",
      "ai_tools", "confidence", "learning">>

\* The confidence stage: estimation_method, ai_confidence and
\* ai_original_confidence are set on the estimate.
ApplyReliableConfidence(estimation, jira_data) ==
    IF IsExc(estimation) THEN estimation
    ELSE Put(Put(Put(estimation, "estimation_method", "ai_powered"),
                 "ai_confidence", CalculateReliableConfidence(estimation, jira_data)),
             "ai_original_confidence", Get(estimation, "confidence", 0 - 1))

\* Stage k applied to the estimate the stage before it left.
ApplyStage(k, estimation, jira_data, h) ==
    CASE k = 1 -> ApplyBlackduckCapping(estimation, jira_data)
      [] k = 2 -> ApplyCompetitiveCapping(estimation, jira_data)
      [] k = 3 -> ApplyIntelligentCrossDependencyAnalysis(estimation, jira_data)
      [] k = 4 -> ApplyHistoricalAdjustment(estimation, jira_data)
      [] k = 5 -> ApplyAiToolsEfficiency(estimation, jira_data)
      [] k = 6 -> ApplyReliableConfidence(estimation, jira_data)
      [] k = 7 -> GetImprovedEstimate(estimation, h)

\* The estimates after stage k and the stages that follow it, staged being
\* the estimate after stage k.
RECURSIVE StagesFrom(_, _, _, _)
StagesFrom(k, staged, jira_data, h) ==
    IF k = Len(StageNames) THEN <<staged>>
    ELSE <<staged>> \o StagesFrom(k + 1, ApplyStage(k + 1, staged, jira_data, h),
                                  jira_data, h)

PolicyStages(estimation, jira_data, h) ==
    StagesFrom(1, ApplyStage(1, estimation, jira_data, h), jira_data, h)

\* What _parse_ai_response returns once the stages have run.
ParsedOrExtracted(ai_response, jira_data, stages) ==
    IF IsExc(stages[Len(stages)]) /\ stages[Len(stages)].exc = "KeyError"
    THEN [estimate |-> ExtractEstimationManually(ai_response, jira_data),
          stages |-> stages]
    ELSE [estimate |-> stages[Len(stages)], stages |-> stages]

\* _parse_ai_response: [estimate |-> the estimate returned or the exception
\* that leaves the function, stages |-> the estimates after the stages run].
\* KeyError is caught and diverts to the manual extraction; any other
\* exception propagates.
ParseAiResponse(ai_response, jira_data, h) ==
    IF ai_response.decodes /\ RequiredFields \subseteq DOMAIN ai_response.obj
    THEN ParsedOrExtracted(ai_response, jira_data,
                           PolicyStages(ai_response.obj, jira_data, h))
    ELSE [estimate |-> ExtractEstimationManually(ai_response, jira_data),
          stages |-> <<>>]

HighKeywords ==
    {"react native", "upgrade", "migration", "objective-c", "swift",
     "native dependencies", "third party", "breaking changes",
     "integration", "api", "database", "security", "authentication",
     "iib", "ibm integration bus", "sap", "mainframe", "enterprise integration",
     "cross-system", "multi-system", "legacy system", "enterprise service bus",
     "mq", "message queue", "soap", "enterprise api", "data transformation"}

MediumKeywords ==
    {"crud", "form", "validation", "report", "dashboard",
     "ui", "frontend", "backend", "update", "dependency"}

FallbackEnterpriseKeywords ==
    {"iib", "ibm integration bus", "sap", "mainframe", "enterprise integration",
     "cross-system", "multi-system"}

UpgradeKeywords == {"react native", "upgrade", "migration"}

NativeKeywords == {"objective-c", "swift", "native"}

\* The score with a medium keyword counted like a high one.
ComplexityScore2MediumAsHigh(description_lower, jira_data) ==
    4 * CountIn(HighKeywords, description_lower)
        + 4 * CountIn(MediumKeywords, description_lower)

\* Twice the complexity_score of _fallback_estimation (the priority
\* contributes 1.5, so the score is kept in halves).
ComplexityScore2(description_lower, jira_data) ==
    LET issue_type == Lower(Get(jira_data, "issue_type", ""))
        priority == Lower(Get(jira_data, "priority", "medium"))
    IN  4 * CountIn(HighKeywords, description_lower)
        + 2 * CountIn(MediumKeywords, description_lower)
        + (IF ~Truthy(jira_data) THEN 0
           ELSE (IF issue_type \in {"epic", "story"} THEN 4
                 ELSE IF issue_type \in {"task", "improvement"} THEN 2 ELSE 0)
                + (IF priority \in {"critical", "highest"} THEN 3
                   ELSE IF priority \in {"high", "major"} THEN 2 ELSE 0))

\* The (complexity, base_hours) _fallback_estimation settles on.
FallbackTierNoEnterpriseForce(description, jira_data) ==
    LET description_lower == Lower(description)
        score2 == ComplexityScore2(description_lower, jira_data)
    IN  IF AnyIn(UpgradeKeywords, description_lower)
        THEN IF AnyIn(NativeKeywords, description_lower)
             THEN <<"High", 30000>> ELSE <<"High", 20000>>
        ELSE IF AnyIn(FallbackEnterpriseKeywords, description_lower) THEN <<"Medium", 8000>>
        ELSE IF score2 >= 8 THEN <<"High", 16000>>
        ELSE IF score2 >= 4 THEN <<"Medium", 8000>>
        ELSE <<"Low", 4000>>

FallbackTier(description, jira_data) ==
    LET description_lower == Lower(description)
        has_enterprise == AnyIn(FallbackEnterpriseKeywords, description_lower)
        score2 == ComplexityScore2(description_lower, jira_data)
        tier == IF AnyIn(UpgradeKeywords, description_lower)
                THEN IF AnyIn(NativeKeywords, description_lower)
                     THEN <<"High", 30000>> ELSE <<"High", 20000>>
                ELSE IF has_enterprise THEN <<"Medium", 8000>>
                ELSE IF score2 >= 8 THEN <<"High", 16000>>
                ELSE IF score2 >= 4 THEN <<"Medium", 8000>>
                ELSE <<"Low", 4000>>
    IN  IF has_enterprise THEN <<tier[1], 8000>> ELSE tier

\* _fallback_estimation
FallbackResult(tier) ==
    [total_hours |-> tier[2],
     complexity |-> tier[1],
     reasoning |-> "Rule-based fallback estimation",
     phases |-> DefaultPhases(tier[2]),
     estimation_method |-> "rule_based_fallback"]

FallbackEstimation(description, jira_data) ==
    WithReliableConfidence(
        ApplyStatusBasedFiltering(
            ApplyBlackduckCapping(FallbackResult(FallbackTier(description, jira_data)),
                                  jira_data),
            jira_data),
        jira_data)

\* self.cache[cache_key] = result; return result
CacheAndReturn(c, cache_key, result, attempts, path, stages) ==
    [estimate |-> result, cache |-> Put(c, cache_key, result), attempts |-> attempts,
     path |-> path, stages |-> stages]

\* The try block of estimate_with_ai after the gateway replied: parsed is
\* what _parse_ai_response made of the reply. An exception that left it is
\* caught and the fallback estimate is cached and returned.
ReturnParsed(c, cache_key, description, jira_data, parsed) ==
    IF IsExc(parsed.estimate)
    THEN CacheAndReturn(c, cache_key, FallbackEstimation(description, jira_data),
                        1, "pipeline_raised", parsed.stages)
    ELSE CacheAndReturn(c, cache_key, parsed.estimate, 1, "parsed", parsed.stages)

\* estimate_with_ai without `self.cache[cache_key] = result` in the except
\* branch: the fallback estimate of a failed gateway call is not cached.
EstimateWithAiFallbackUncached(c, h, has_client, description, jira_data, gateway) ==
    LET cache_key == CacheKey(description, jira_data) IN
    IF cache_key \in DOMAIN c
    THEN [estimate |-> c[cache_key], cache |-> c, attempts |-> 0,
          path |-> "cache_hit", stages |-> <<>>]
    ELSE IF ~has_client
    THEN LET result == FallbackEstimation(description, jira_data) IN
         [estimate |-> result, cache |-> Put(c, cache_key, result), attempts |-> 0,
          path |-> "no_client", stages |-> <<>>]
    ELSE IF gateway.raises
    THEN [estimate |-> FallbackEstimation(description, jira_data), cache |-> c,
          attempts |-> 1, path |-> "gateway_raised", stages |-> <<>>]
    ELSE
      LET parsed == ParseAiResponse(gateway.reply, jira_data, h) IN
      IF IsExc(parsed.estimate)
      THEN [estimate |-> FallbackEstimation(description, jira_data), cache |-> c,
            attempts |-> 1, path |-> "pipeline_raised", stages |-> parsed.stages]
      ELSE [estimate |-> parsed.estimate, cache |-> Put(c, cache_key, parsed.estimate),
            attempts |-> 1, path |-> "parsed", stages |-> parsed.stages]

\* estimate_with_ai. has_client says whether the AzureOpenAI client was built
\* (api key and endpoint given); gateway is what _get_ai_estimation does
\* when it is called: [raises |-> TRUE] or [raises |-> FALSE, reply |-> r].
\* Returns the estimate, the cache afterwards, the number of gateway calls
\* made, the path taken and the stage estimates of the model-parsed path.
EstimateWithAi(c, h, has_client, description, jira_data, gateway) ==
    LET cache_key == CacheKey(description, jira_data) IN
    IF cache_key \in DOMAIN c
    THEN [estimate |-> c[cache_key], cache |-> c, attempts |-> 0,
          path |-> "cache_hit", stages |-> <<>>]
    ELSE IF ~has_client
    THEN CacheAndReturn(c, cache_key, FallbackEstimation(description, jira_data),
                        0, "no_client", <<>>)
    ELSE IF gateway.raises
    THEN CacheAndReturn(c, cache_key, FallbackEstimation(description, jira_data),
                        1, "gateway_raised", <<>>)
    ELSE ReturnParsed(c, cache_key, description, jira_data,
                      ParseAiResponse(gateway.reply, jira_data, h))

----------------------------------------------------------------------------
(* The learning history under direct calls                                 *)

\* The history file is written without fault in these runs.
\* The longest history the learning-system runs build.
MaxHistory == 3

Tickets == {"PROJ-1", "PROJ-2"}

\* (complexity, estimated hours) of the estimates recorded: a ticket that
\* is done is estimated at 0 hours.
RecordedEstimates == {<<"Low", 0>>, <<"Low", 4000>>, <<"Medium", 8000>>}

\* actual_hours as /estimate passes it to record_estimation
RecordedActuals == {NoHours, 6000}

\* actual_hours as /update-actual-hours passes it on
ReportedActuals == {0, 6000}

InitLearning ==
    /\ cache = << >>
    /\ history = <<>>
    /\ client = FALSE
    /\ last = [op |-> "init"]
    /\ pending_designs = << >>
    /\ approved_designs = << >>
    /\ store = StoredFile(<<>>)
    /\ inflight = << >>

\* A call of record_estimation.
RecordEstimation ==
    /\ Len(history) < MaxHistory
    /\ \E t \in Tickets, e \in RecordedEstimates, a \in RecordedActuals :
          LET r == record_estimation(history, t, e[2], e[1], "ai_powered", a) IN
          /\ history' = r.history
          /\ store' = FileAfterRecord(r, store, "written")
          /\ last' = [op |-> "record_estimation", jira_ticket |-> t,
                      estimated_hours |-> e[2], complexity |-> e[1],
                      actual_hours |-> a, raised |-> r.raised]
    /\ UNCHANGED <<cache, client, inflight, pending_designs, approved_designs>>

\* A call of update_actual_hours, as /update-actual-hours makes it.
UpdateActualHours ==
    /\ \E t \in Tickets, a \in ReportedActuals :
          LET r == update_actual_hours(history, t, a) IN
          /\ history' = r.history
          /\ store' = FileAfterUpdate(r, store, "written")
          /\ last' = [op |-> "update_actual_hours", jira_ticket |-> t,
                      actual_hours |-> a, ret |-> r.ret, raised |-> r.raised]
    /\ UNCHANGED <<cache, client, inflight, pending_designs, approved_designs>>

NextLearning == RecordEstimation \/ UpdateActualHours

SpecLearning == InitLearning /\ [][NextLearning]_vars

\* A call of get_accuracy_stats, as /learning-stats makes it.
GetAccuracyStats ==
    /\ LET r == get_accuracy_stats(history) IN
       last' = [op |-> "get_accuracy_stats", raised |-> r.raised, ret |-> r.stats]
    /\ UNCHANGED <<cache, history, client, store, inflight, pending_designs, approved_designs>>

\* A call of get_complexity_adjustments, as get_improved_estimate makes it.
GetComplexityAdjustments ==
    /\ LET r == get_complexity_adjustments(history) IN
       last' = [op |-> "get_complexity_adjustments", raised |-> r.raised,
                ret |-> r.adjustments]
    /\ UNCHANGED <<cache, history, client, store, inflight, pending_designs, approved_designs>>

NextStatistics ==
    RecordEstimation \/ UpdateActualHours \/ GetAccuracyStats \/ GetComplexityAdjustments

\* The learning history under direct calls with its two reports read
\* between them.
SpecStatistics == InitLearning /\ [][NextStatistics]_vars

----------------------------------------------------------------------------
(* Properties of the learning history                                      *)

\* The indices of the records of h with actual hours recorded.
CompletedIndices(h) == {i \in 1..Len(h) : h[i].actual_hours # NoHours}

TierIndices(h, tier) == {i \in CompletedIndices(h) : h[i].complexity = tier}

\* actual/estimated of record i as numerator and denominator with the
\* common factors taken out (TLC's integers are 32 bits wide).
RatioNum(h, i) == h[i].actual_hours \div GCD(h[i].actual_hours, h[i].estimated_hours)

RatioDen(h, i) == h[i].estimated_hours \div GCD(h[i].actual_hours, h[i].estimated_hours)

RECURSIVE ProductOfDens(_, _)
ProductOfDens(h, I) ==
    IF I = {} THEN 1
    ELSE LET i == CHOOSE x \in I : TRUE
         IN  RatioDen(h, i) * ProductOfDens(h, I \ {i})

\* The sum over J of actual_i / estimated_i, times the product of the
\* denominators of I (an integer).
RECURSIVE ScaledRatioSum(_, _, _)
ScaledRatioSum(h, I, J) ==
    IF J = {} THEN 0
    ELSE LET i == CHOOSE x \in J : TRUE
         IN  RatioNum(h, i) * ProductOfDens(h, I \ {i})
             + ScaledRatioSum(h, I, J \ {i})

\* ratio = mean over I of actual/estimated, by cross-multiplication
IsMeanRatio(ratio, h, I) ==
    ratio[1] * Cardinality(I) * ProductOfDens(h, I)
        = ratio[2] * ScaledRatioSum(h, I, I)

C8_WitnessMapped ==
    /\ Cardinality(CompletedIndices(history)) = 3
    /\ \E c \in Tiers :
          /\ DOMAIN get_complexity_adjustments(history).adjustments = {c}
          /\ get_complexity_adjustments(history).adjustments[c] \notin {<<1, 1>>, <<0, 1>>}
          /\ Cardinality(TierIndices(history, c)) = 2

----------------------------------------------------------------------------
(* One call of estimate_with_ai on a fresh estimator                       *)

\* A ticket as JiraClient.get_ticket_details returns it, with the
\* uses_ai_tools flag the handlers add.
Ticket(status, text, links, uses_ai_tools, changelog) ==
    [key |-> "PROJ-1", issue_type |-> "Story", priority |-> "High",
     status |-> status, summary |-> text[1], description |-> text[2],
     linked_issues |-> links, uses_ai_tools |-> uses_ai_tools,
     status_history |-> changelog[1], time_in_status |-> changelog[2],
     time_tracking |-> [time_spent_seconds |-> changelog[3]]]

\* What /estimate passes when no ticket was fetched.
FlagOnly(uses_ai_tools) == [uses_ai_tools |-> uses_ai_tools]

TicketStatuses == {"To Do", "Done", "QA", "In Progress"}

\* <<summary, description>>: a plain ticket, a security ticket, an
\* enterprise-system ticket
PlainText == <<"Order export", "Export the orders as CSV">>

SecurityText == <<"Fix CVE-2024-1 in lodash", "BlackDuck scan finding">>

EnterpriseText == <<"SAP order sync", "Sync the orders to SAP">>

TicketTexts == {PlainText, SecurityText, EnterpriseText}

Link(key, type, summary) == [key |-> key, type |-> type, summary |-> summary]

OneLink == <<Link("PROJ-7", "Blocks", "Payment screen")>>

ThreeLinks ==
    <<Link("PROJ-7", "Blocks", "IIB API integration"),
      Link("PROJ-8", "is blocked by", "Payment screen"),
      Link("PROJ-9", "Relates to", "Order list")>>

TicketLinks == {<<>>, OneLink, ThreeLinks}

\* <<status_history, time_in_status, time_spent_seconds>>: a quiet ticket,
\* one with 6 status changes, one with 6 changes and 50 h in analysis
Quiet == << <<>>, <<>>, 0 >>

Reworked ==
    << <<"To Do", "In Progress", "QA", "In Progress", "QA", "In Progress">>,
       << <<"In Progress", 2000>>, <<"QA", 1200>> >>, 7200 >>

ReworkedLongAnalysis ==
    << <<"Backlog", "To Do", "In Progress", "QA", "In Progress", "QA">>,
       << <<"Backlog", 3000>>, <<"To Do", 2000>>, <<"In Progress", 2000>> >>, 0 >>

Changelogs == {Quiet, Reworked, ReworkedLongAnalysis}

FetchedTickets ==
    {Ticket(s, t, l, u, c) :
        s \in TicketStatuses, t \in TicketTexts, l \in TicketLinks,
        u \in BOOLEAN, c \in Changelogs}

\* description = f"{jira_data['summary']}. {jira_data['description']}"
DescriptionOf(jira_data) == jira_data["summary"] \o ". " \o jira_data["description"]

\* A reply that decodes to a JSON object.
JsonReply(total_hours, complexity, confidence, reasoning, phases) ==
    [decodes |-> TRUE,
     obj |-> [total_hours |-> total_hours, complexity |-> complexity,
              confidence |-> confidence, reasoning |-> reasoning,
              phases |-> phases],
     text_hours |-> NoHours]

Phases(r, d, v, t, p) ==
    [requirements |-> r, design |-> d, development |-> v, testing |-> t, deployment |-> p]

\* The replies of the model: 104 h weighted 15/20/48/15/2 to 2 places and
\* to 1 place, 200 h, 40 h for a CVE, 96.4 h unevenly split, a JSON object
\* without phases, and prose that names 200 hours.
Replies ==
    {JsonReply(10400, "Medium", 70, "Standard feature work",
               Phases(1560, 2080, 4992, 1560, 208)),
     JsonReply(10400, "Medium", 70, "Standard feature work",
               Phases(1560, 2080, 4990, 1560, 210)),
     JsonReply(20000, "High", 60, "Complex migration with unknown third party risks",
               Phases(3000, 4000, 9600, 3000, 400)),
     JsonReply(4000, "Low", 85, "Patch the CVE in the parser",
               Phases(600, 800, 1920, 600, 80)),
     JsonReply(9640, "Medium", 75, "Moderate work",
               Phases(1213, 2057, 4633, 1517, 220)),
     [decodes |-> TRUE,
      obj |-> [total_hours |-> 9000, complexity |-> "Medium", reasoning |-> "No phases"],
      text_hours |-> NoHours],
     [decodes |-> FALSE, obj |-> << >>, text_hours |-> 200]}

GatewayOutcomes == {[raises |-> TRUE]} \cup {[raises |-> FALSE, reply |-> r] : r \in Replies}

\* Free-text descriptions given without a ticket.
Descriptions ==
    {"Upgrade React Native from 0.76 to 0.79 with Objective-C to Swift migration of the payment module",
     "Create a simple login form with username and password",
     "Upgrade React Native for the SAP mainframe gateway with Swift",
     "Fix BlackDuck CVE in a transitive library",
     "Add IIB routing for orders",
     "Migration of the reporting database",
     "React Native screen for settings",
     "Secure REST API with database authentication",
     "Sales report dashboard"}

\* Tickets given along with a free-text description.
GivenTickets ==
    {NoDict, FlagOnly(FALSE), FlagOnly(TRUE),
     Ticket("To Do", PlainText, <<>>, FALSE, Quiet),
     Ticket("Done", PlainText, OneLink, FALSE, Quiet),
     Ticket("QA", PlainText, <<>>, TRUE, Reworked),
     Ticket("To Do", SecurityText, <<>>, FALSE, Quiet)}

\* The calls studied: every fetched ticket with each gateway outcome, and
\* every free-text description with each given ticket when the gateway
\* raises or replies with 104 hours.
CallCases ==
    {[description |-> DescriptionOf(j), jira_data |-> j, gateway |-> g] :
        j \in FetchedTickets, g \in GatewayOutcomes}
    \cup
    {[description |-> d, jira_data |-> j, gateway |-> g] :
        d \in Descriptions, j \in GivenTickets,
        g \in {[raises |-> TRUE],
               [raises |-> FALSE,
                reply |-> JsonReply(10400, "Medium", 70, "Standard feature work",
                                    Phases(1560, 2080, 4992, 1560, 208))]}}

\* A history file left by an earlier run: three completed records, two of
\* them Medium with actual/estimated 0.75 and 1.5.
LearnedHistory ==
    <<HistoryRecord("PROJ-2", 8000, "Medium", "ai_powered", 6000),
      HistoryRecord("PROJ-3", 8000, "Medium", "ai_powered", 12000),
      HistoryRecord("PROJ-4", 4000, "Low", "rule_based_fallback", 4000)>>

\* A history file with two completed records, both Medium.
TwoOfATier ==
    <<HistoryRecord("PROJ-2", 8000, "Medium", "ai_powered", 6000),
      HistoryRecord("PROJ-3", 8000, "Medium", "ai_powered", 12000)>>

\* A history file with three completed records, two of them Low, one of
\* which was estimated at 0 hours for a ticket that was done.
DoneTicketHistory ==
    <<HistoryRecord("PROJ-2", 0, "Low", "ai_powered", 6000),
      HistoryRecord("PROJ-3", 4000, "Low", "ai_powered", 6000),
      HistoryRecord("PROJ-4", 8000, "Medium", "ai_powered", 6000)>>

\* _load_history: what the history file holds when the estimator is built.
LoadedHistories == {<<>>, LearnedHistory, TwoOfATier}

InitPipeline ==
    /\ cache = << >>
    /\ history \in LoadedHistories
    /\ client \in BOOLEAN
    /\ last = [op |-> "init"]
    /\ pending_designs = << >>
    /\ approved_designs = << >>
    /\ store = StoredFile(history)
    /\ inflight = << >>

\* The state after a call of estimate_with_ai that returned r.
Returned(description, jira_data, gateway, r) ==
    /\ cache' = r.cache
    /\ last' = [op |-> "estimate_with_ai", description |-> description,
                jira_data |-> jira_data, gateway |-> gateway,
                estimate |-> r.estimate, path |-> r.path,
                attempts |-> r.attempts, stages |-> r.stages]
    /\ UNCHANGED <<history, client, store, inflight, pending_designs, approved_designs>>

\* A call of estimate_with_ai(description, jira_data).
EstimateCall(description, jira_data, gateway) ==
    Returned(description, jira_data, gateway,
             EstimateWithAi(cache, history, client, description, jira_data, gateway))

\* The first call on the estimator. Without a client the gateway is never
\* reached, so its outcome is no input of the call then.
FirstCall ==
    /\ last.op = "init"
    /\ \E c \in CallCases :
          /\ client \/ c.gateway.raises
          /\ EstimateCall(c.description, c.jira_data, c.gateway)

NextPipeline == FirstCall

SpecPipeline == InitPipeline /\ [][NextPipeline]_vars

----------------------------------------------------------------------------
(* The service: /estimate, /bulk-estimate and /update-actual-hours          *)

\* The history file is written without fault in these runs; the runs of
\* the service under a faulty file and restarts follow further down.
\* What jira_client.get_ticket_details returns for PROJ-1 at the time of a
\* request: the ticket moves through its statuses between requests.
JiraStates == {Ticket(s, PlainText, <<>>, FALSE, Quiet) : s \in {"To Do", "QA"}}

\* The default of data.get('phase_percentages', ...)
DefaultPercentages == Phases(15, 20, 48, 15, 2)

CustomPercentages == Phases(10, 20, 50, 15, 5)

RequestPercentages == {DefaultPercentages, CustomPercentages}

\* The statuses of status_override in /estimate
OverrideStatuses == QaStatuses \cup UatStatuses \cup DoneStatuses \cup DevStatuses

\* What the gateway does when a request reaches it.
ServiceGateway ==
    {[raises |-> TRUE],
     [raises |-> FALSE,
      reply |-> JsonReply(10400, "Medium", 70, "Standard feature work",
                          Phases(1560, 2080, 4992, 1560, 208))]}

\* The AI branch of /estimate (use_ai with AZURE_OPENAI_API_KEY set, all
\* phases selected, no custom phase names) after estimate_with_ai returned
\* r and the handler's status filtering left ai_result: the estimate is
\* re-allocated over the requested percentages unless it was filtered,
\* and the response is recorded in the learning history.
Respond(h, fetched, jira_data, phase_percentages, actual_hours, r, filter, ai_result) ==
    LET description == DescriptionOf(fetched)
        base_total == Get(r.estimate, "total_hours", 8000)
        filtered_phases ==
            IF filter THEN ai_result["phases"]
            ELSE MapPhases(LAMBDA percent, p : Round2(base_total, percent, 100),
                           phase_percentages)
        total_filtered_hours ==
            IF filter THEN ai_result["total_hours"] ELSE SumPhases(filtered_phases)
        estimate_result ==
            [jira_number |-> fetched["key"],
             description |-> description,
             complexity |-> Get(ai_result, "complexity", "Medium"),
             total_hours |-> total_filtered_hours,
             phases |-> filtered_phases,
             estimation_method |-> Get(ai_result, "estimation_method", "ai_powered"),
             ai_confidence |-> Get(ai_result, "confidence", 75),
             ai_reasoning |-> Get(ai_result, "reasoning", "")]
        recorded == record_estimation(h, fetched["key"], total_filtered_hours,
                                      Get(ai_result, "complexity", "Medium"),
                                      Get(ai_result, "estimation_method", "ai_powered"),
                                      actual_hours)
    IN  [description |-> description, jira_data |-> jira_data,
         estimate |-> r.estimate, path |-> r.path, attempts |-> r.attempts,
         stages |-> r.stages,
         cache |-> Put(r.cache, CacheKey(description, jira_data), ai_result),
         history |-> recorded.history,
         response |-> IF recorded.raised = None THEN estimate_result
                      ELSE [error |-> recorded.raised]]

\* status_override and has_custom_phases of the AI branch: ai_result is the
\* object estimate_with_ai returned, which is the object the cache holds, so
\* _apply_status_based_filtering changes the cached estimate too.
Filtered(h, fetched, jira_data, phase_percentages, actual_hours, r) ==
    LET status == Lower(Get(jira_data, "status", ""))
        status_override == status \in OverrideStatuses
        has_custom_phases == phase_percentages # DefaultPercentages
        filter == status_override /\ ~has_custom_phases
    IN  Respond(h, fetched, jira_data, phase_percentages, actual_hours, r, filter,
                IF filter THEN ApplyStatusBasedFiltering(r.estimate, jira_data)
                ELSE r.estimate)

\* /estimate for a fetched ticket: the estimator is called with the
\* ticket's description and the ticket carrying the request's uses_ai_tools.
Estimate(c, h, has_client, fetched, uses_ai_tools, phase_percentages, actual_hours, gateway) ==
    Filtered(h, fetched, Put(fetched, "uses_ai_tools", uses_ai_tools),
             phase_percentages, actual_hours,
             EstimateWithAi(c, h, has_client, DescriptionOf(fetched),
                            Put(fetched, "uses_ai_tools", uses_ai_tools), gateway))

\* What /estimate answers when the AI branch came to r and the file system
\* did `outcome` to the save of record_estimation: an exception that leaves
\* record_estimation is caught by the handler's `except Exception` and
\* answered with {'error': ...} and status 500.
Response(r, outcome) ==
    IF "error" \in DOMAIN r.response THEN r.response
    ELSE IF outcome # "written" THEN [error |-> "OSError"]
    ELSE r.response

\* The state after /estimate answered.
Answered(gateway, phase_percentages, outcome, r) ==
    /\ cache' = r.cache
    /\ history' = r.history
    /\ store' = IF "error" \in DOMAIN r.response THEN store
                ELSE save_history(r.history, store, outcome).file
    /\ last' = [op |-> "estimate", description |-> r.description,
                jira_data |-> r.jira_data, gateway |-> gateway,
                phase_percentages |-> phase_percentages,
                estimate |-> r.estimate, path |-> r.path,
                attempts |-> r.attempts, stages |-> r.stages,
                computed |-> r.response, save |-> outcome,
                response |-> Response(r, outcome)]

Init ==
    /\ cache = << >>
    /\ history = <<>>
    /\ client \in BOOLEAN
    /\ last = [op |-> "init"]
    /\ pending_designs = << >>
    /\ approved_designs = << >>
    /\ store = StoredFile(<<>>)
    /\ inflight = << >>

\* POST /estimate with a ticket number and one of these phase percentages,
\* the save of the record meeting one of these outcomes
HandleEstimateUnder(percentages, outcomes) ==
    /\ Len(history) < MaxHistory
    /\ \E fetched \in JiraStates, phase_percentages \in percentages,
          gateway \in ServiceGateway, outcome \in outcomes :
          /\ client \/ gateway.raises
          /\ Answered(gateway, phase_percentages, outcome,
                      Estimate(cache, history, client, fetched, FALSE,
                               phase_percentages, NoHours, gateway))
    /\ UNCHANGED <<client, inflight, pending_designs, approved_designs>>

HandleEstimate == HandleEstimateUnder(RequestPercentages, {"written"})

\* The row /bulk-estimate appends to its results for a ticket estimated
\* with use_ai; an exception of the estimator is answered by an error row.
BulkRow(jira_data, estimation) ==
    IF IsExc(estimation)
    THEN [ticket |-> jira_data["key"], status |-> "error", error |-> estimation.exc]
    ELSE [ticket |-> jira_data["key"],
          complexity |-> Get(estimation, "complexity", "Medium"),
          issue_type |-> Get(jira_data, "issue_type", "Unknown"),
          total_hours |-> Get(estimation, "total_hours", 0),
          ai_confidence |-> Get(estimation, "ai_confidence",
                                Get(estimation, "confidence", 0)),
          phases |-> Get(estimation, "phases", NoDict),
          status |-> "success"]

\* The state after /bulk-estimate appended the row of a ticket for which
\* estimate_with_ai returned r.
ReturnedInBulk(description, jira_data, gateway, r) ==
    /\ cache' = r.cache
    /\ last' = [op |-> "estimate_with_ai", description |-> description,
                jira_data |-> jira_data, gateway |-> gateway,
                estimate |-> r.estimate, path |-> r.path,
                attempts |-> r.attempts, stages |-> r.stages,
                row |-> BulkRow(jira_data, r.estimate)]
    /\ UNCHANGED <<history, client, store, inflight, pending_designs, approved_designs>>

\* POST /bulk-estimate with use_ai, one ticket of the list
HandleBulkEstimate ==
    /\ \E fetched \in JiraStates, gateway \in ServiceGateway :
          /\ client \/ gateway.raises
          /\ ReturnedInBulk(DescriptionOf(fetched),
                            Put(fetched, "uses_ai_tools", FALSE), gateway,
                            EstimateWithAi(cache, history, client,
                                           DescriptionOf(fetched),
                                           Put(fetched, "uses_ai_tools", FALSE),
                                           gateway))

\* The state after update_actual_hours returned r, or raised in its save.
Updated(t, actual_hours, outcome, r) ==
    /\ history' = r.history
    /\ store' = FileAfterUpdate(r, store, outcome)
    /\ last' = [op |-> "update_actual_hours", jira_ticket |-> t,
                actual_hours |-> actual_hours, save |-> outcome,
                ret |-> IF r.ret = "True" /\ outcome # "written" THEN None ELSE r.ret,
                raised |-> IF r.ret = "True" /\ outcome # "written" THEN "OSError"
                           ELSE r.raised]
    /\ UNCHANGED <<cache, client, inflight, pending_designs, approved_designs>>

\* POST /update-actual-hours, the save meeting one of these outcomes
HandleUpdateActualHoursUnder(outcomes) ==
    \E t \in Tickets, outcome \in outcomes :
        Updated(t, 6000, outcome, update_actual_hours(history, t, 6000))

HandleUpdateActualHours == HandleUpdateActualHoursUnder({"written"})

Next == HandleEstimate \/ HandleBulkEstimate \/ HandleUpdateActualHours

Spec == Init /\ [][Next]_vars

----------------------------------------------------------------------------
(* ProjectEstimator and the phase allocation of /estimate                  *)

RuleHighKeywords ==
    {"integration", "api", "database", "migration", "security",
     "authentication", "microservice", "complex", "multiple systems"}

RuleMediumKeywords ==
    {"crud", "form", "validation", "report", "dashboard", "ui", "frontend", "backend"}

\* len(description.split()), for texts whose words are set apart by blanks
WordCount(description) ==
    Cardinality({i \in 1..Len(description) :
                    /\ SubSeq(description, i, i) # " "
                    /\ (i = 1 \/ SubSeq(description, i - 1, i - 1) = " ")})

\* Twice the complexity_score of ProjectEstimator._analyze_complexity (a
\* bug contributes 0.5 and a critical priority 1.5).
RuleComplexityScore2(description, jira_data) ==
    LET issue_type == Lower(Get(jira_data, "issue_type", ""))
        priority == Lower(Get(jira_data, "priority", "medium"))
    IN  4 * CountIn(RuleHighKeywords, Lower(description))
        + 2 * CountIn(RuleMediumKeywords, Lower(description))
        + (IF ~Truthy(jira_data) THEN 0
           ELSE (IF issue_type \in {"epic", "story"} THEN 4
                 ELSE IF issue_type \in {"task", "improvement"} THEN 2
                 ELSE IF issue_type = "bug" THEN 1 ELSE 0)
                + (IF priority \in {"critical", "highest"} THEN 3
                   ELSE IF priority \in {"high", "major"} THEN 2 ELSE 0))
        + (IF WordCount(description) > 50 THEN 2 ELSE 0)

\* ProjectEstimator._analyze_complexity
AnalyzeComplexity(description, jira_data) ==
    IF RuleComplexityScore2(description, jira_data) >= 8 THEN "High"
    ELSE IF RuleComplexityScore2(description, jira_data) >= 4 THEN "Medium"
    ELSE "Low"

\* ProjectEstimator._get_base_hours: round(base_hours) after the issue-type
\* and priority multipliers, in hundredths of an hour.
GetBaseHours(complexity, jira_data) ==
    LET issue_type == Lower(Get(jira_data, "issue_type", ""))
        priority == Lower(Get(jira_data, "priority", "medium"))
        base_hours == IF complexity = "Low" THEN 40
                      ELSE IF complexity = "High" THEN 160 ELSE 80
        by_type == IF ~Truthy(jira_data) THEN 10
                   ELSE IF issue_type = "epic" THEN 15
                   ELSE IF issue_type = "bug" THEN 7 ELSE 10
        by_priority == IF ~Truthy(jira_data) THEN 10
                       ELSE IF priority \in {"critical", "highest"} THEN 12
                       ELSE IF priority \in {"low", "lowest"} THEN 8 ELSE 10
    IN  100 * RoundDiv(base_hours * by_type * by_priority, 100)

\* ProjectEstimator.estimate_project
EstimateProject(description, jira_number, jira_data) ==
    [jira_number |-> jira_number,
     description |-> description,
     complexity |-> AnalyzeComplexity(description, jira_data),
     total_hours |-> GetBaseHours(AnalyzeComplexity(description, jira_data), jira_data),
     phases |-> DefaultPhases(GetBaseHours(AnalyzeComplexity(description, jira_data),
                                           jira_data))]

\* The phases the loops of /estimate keep: the standard and the custom
\* phases with selected_phases.get(phase, True).
IncludedPhases(selected_phases, custom_phases) ==
    {p \in PhaseNames \cup DOMAIN custom_phases : Get(selected_phases, p, TRUE)}

\* The AI branch: round(base_total * (phase_percentages.get(phase, 0) / 100), 2)
AllocatedTo2(base_total, request) ==
    [p \in IncludedPhases(request.selected_phases, request.custom_phases) |->
        Round2(base_total, Get(request.phase_percentages, p, 0), 100)]

\* The rule-based branch: round(base_total * (... / 100), 1)
AllocatedTo1(base_total, request) ==
    [p \in IncludedPhases(request.selected_phases, request.custom_phases) |->
        Round1(base_total, Get(request.phase_percentages, p, 0), 100)]

\* total_filtered_hours: the sum of the hours allocated
RECURSIVE SumOver(_, _)
SumOver(phases, names) ==
    IF names = {} THEN 0
    ELSE LET p == CHOOSE x \in names : TRUE
         IN  phases[p] + SumOver(phases, names \ {p})

\* has_custom_phases of /estimate
HasCustomPhases(request) ==
    \/ Truthy(request.custom_phases)
    \/ \E p \in PhaseNames : Get(request.phase_percentages, p, 0) # DefaultPercentages[p]

\* What /estimate has at hand when it records the estimate: the branch
\* taken, the total the allocation started from, phases and total as
\* reported, and the cache and the history afterwards.
Reported(h, c, fetched, jira_data, request, branch, result, base_total, phases, total) ==
    [branch |-> branch, jira_data |-> jira_data, request |-> request,
     base_total |-> base_total, cache |-> c,
     history |-> record_estimation(h, fetched["key"], total,
                                   Get(result, "complexity", "Medium"),
                                   IF branch = "rule_based" THEN "rule_based"
                                   ELSE Get(result, "estimation_method", "ai_powered"),
                                   NoHours).history,
     response |-> [jira_number |-> fetched["key"],
                   description |-> DescriptionOf(fetched),
                   complexity |-> Get(result, "complexity", "Medium"),
                   total_hours |-> total,
                   phases |-> phases,
                   estimation_method |-> IF branch = "rule_based" THEN "rule_based"
                                         ELSE Get(result, "estimation_method", "ai_powered"),
                   custom_phase_names |-> request.custom_phases]]

\* The AI branch where status filtering overrides the allocation: the
\* estimate estimate_with_ai returned (the cached object) is filtered in
\* place and its phases and total are reported as they are.
ReportFiltered(h, fetched, jira_data, request, r, ai_result) ==
    Reported(h, Put(r.cache, CacheKey(DescriptionOf(fetched), jira_data), ai_result),
             fetched, jira_data, request, "ai_status_override", ai_result,
             Get(r.estimate, "total_hours", 8000),
             Get(ai_result, "phases", << >>), Get(ai_result, "total_hours", 0))

\* The AI branch where the total is allocated over the percentages.
ReportAllocated(h, fetched, jira_data, request, r, phases) ==
    Reported(h, r.cache, fetched, jira_data, request, "ai", r.estimate,
             Get(r.estimate, "total_hours", 8000), phases,
             SumOver(phases, DOMAIN phases))

\* The AI branch of /estimate after estimate_with_ai returned r.
AiBranch(h, fetched, jira_data, request, r) ==
    IF Lower(Get(jira_data, "status", "")) \in OverrideStatuses /\ ~HasCustomPhases(request)
    THEN ReportFiltered(h, fetched, jira_data, request, r,
                        ApplyStatusBasedFiltering(r.estimate, jira_data))
    ELSE ReportAllocated(h, fetched, jira_data, request, r,
                         AllocatedTo2(Get(r.estimate, "total_hours", 8000), request))

\* The rule-based branch of /estimate after estimate_project returned.
RuleBasedBranch(h, c, fetched, request, estimate_result, phases) ==
    Reported(h, c, fetched, fetched, request, "rule_based", estimate_result,
             estimate_result["total_hours"], phases, SumOver(phases, DOMAIN phases))

\* /estimate for a fetched ticket: the AI branch when use_ai is set (and
\* AZURE_OPENAI_API_KEY is), the rule-based branch otherwise.
EstimateSelected(c, h, has_client, fetched, request, gateway) ==
    IF request.use_ai
    THEN AiBranch(h, fetched, Put(fetched, "uses_ai_tools", FALSE), request,
                  EstimateWithAi(c, h, has_client, DescriptionOf(fetched),
                                 Put(fetched, "uses_ai_tools", FALSE), gateway))
    ELSE RuleBasedBranch(h, c, fetched, request,
                         EstimateProject(DescriptionOf(fetched), fetched["key"], fetched),
                         AllocatedTo1(EstimateProject(DescriptionOf(fetched), fetched["key"],
                                                      fetched)["total_hours"],
                                      request))

\* The tickets fetched: a story to do, a story in QA and a bug to do.
AllocationTickets ==
    {Ticket("To Do", PlainText, <<>>, FALSE, Quiet),
     Ticket("QA", PlainText, <<>>, FALSE, Quiet),
     [Ticket("To Do", PlainText, <<>>, FALSE, Quiet) EXCEPT !["issue_type"] = "Bug"]}

\* custom_phases of the request: none, or one phase named by the caller
CustomPhases == {NoDict, [security_review |-> "Security review"]}

\* selected_phases of the request: every phase, all but testing, the last
\* three standard phases, all but the custom phase
SelectionMasks ==
    {Phases(TRUE, TRUE, TRUE, TRUE, TRUE),
     Phases(TRUE, TRUE, TRUE, FALSE, TRUE),
     Phases(FALSE, FALSE, TRUE, TRUE, TRUE),
     [security_review |-> FALSE]}

\* phase_percentages of the request: the default, the default with a
\* weight for the custom phase, and weights of the caller's own
WeightMappings ==
    {DefaultPercentages,
     [security_review |-> 10] @@ DefaultPercentages,
     [security_review |-> 10] @@ CustomPercentages}

AllocationRequests ==
    {[use_ai |-> u, selected_phases |-> s, phase_percentages |-> w, custom_phases |-> c] :
        u \in BOOLEAN, s \in SelectionMasks, w \in WeightMappings, c \in CustomPhases}

InitAllocation ==
    /\ cache = << >>
    /\ history = <<>>
    /\ client = TRUE
    /\ last = [op |-> "init"]
    /\ pending_designs = << >>
    /\ approved_designs = << >>
    /\ store = StoredFile(<<>>)
    /\ inflight = << >>

\* The state after /estimate answered a.
AnsweredSelected(gateway, a) ==
    /\ cache' = a.cache
    /\ history' = a.history
    /\ store' = save_history(a.history, store, "written").file
    /\ last' = [op |-> "estimate", branch |-> a.branch, jira_data |-> a.jira_data,
                request |-> a.request, gateway |-> gateway,
                base_total |-> a.base_total, response |-> a.response]
    /\ UNCHANGED <<client, inflight, pending_designs, approved_designs>>

\* POST /estimate with a ticket number, a selection mask, a weight mapping
\* and custom phases: the first request the process serves. Without use_ai
\* the gateway is never reached, so its outcome is no input of the request.
HandleEstimateSelected ==
    /\ last.op = "init"
    /\ \E fetched \in AllocationTickets, request \in AllocationRequests,
          gateway \in ServiceGateway :
          /\ request.use_ai \/ gateway.raises
          /\ AnsweredSelected(gateway,
                              EstimateSelected(cache, history, client, fetched,
                                               request, gateway))

NextAllocation == HandleEstimateSelected

SpecAllocation == InitAllocation /\ [][NextAllocation]_vars

----------------------------------------------------------------------------
(* The service over a faulty history file, with restarts                   *)

\* The service starts without credentials and without a history file.
InitStore ==
    /\ cache = << >>
    /\ history = <<>>
    /\ client = FALSE
    /\ last = [op |-> "init"]
    /\ pending_designs = << >>
    /\ approved_designs = << >>
    /\ store = StoredFile(<<>>)
    /\ inflight = << >>

EstimateOverStore == HandleEstimateUnder({DefaultPercentages}, SaveOutcomes)

UpdateOverStore == HandleUpdateActualHoursUnder(SaveOutcomes)

\* The process is started again: AIEstimator() builds an empty cache and
\* EstimationLearningSystem() loads the history from the file.
Restart ==
    /\ last.op # "restart"
    /\ cache' = << >>
    /\ history' = load_history(store)
    /\ last' = [op |-> "restart"]
    /\ UNCHANGED <<client, store, inflight, pending_designs, approved_designs>>

NextStore == EstimateOverStore \/ UpdateOverStore \/ Restart

SpecStore == InitStore /\ [][NextStore]_vars

----------------------------------------------------------------------------
(* Two requests served at once                                             *)

\* app.run() serves each request in a thread of its own, and no lock guards
\* the history list or its file. A request's call on the history is taken
\* in four steps: the change of the list (record_estimation's append,
\* update_actual_hours' two assignments), open(data_file, 'w'), which
\* truncates the file, json.dump, which prints the list as it is then into
\* the file object's buffer, and the close at the end of the with block,
\* which writes the buffer to the file from offset 0. The file is this
\* small that the buffer is not flushed before the close.

\* The length of the text json.dump prints for these records. A record
\* whose actual_hours and accuracy are numbers prints longer than one where
\* both are null, for the hours reported here.
RECURSIVE TextLength(_)
TextLength(records) ==
    IF records = <<>> THEN 1
    ELSE (IF Head(records).actual_hours = NoHours THEN 2 ELSE 3)
         + TextLength(Tail(records))

\* The file on disk: the records of the JSON text it holds when the text
\* parses, and the length of what is on disk.
DiskFile(readable, records, length) ==
    [readable |-> readable, records |-> records, length |-> length]

\* open(self.data_file, 'w'): the file is empty, which json.load rejects.
Truncated == DiskFile(FALSE, <<>>, 0)

\* The file after a buffer holding the text of these records is written
\* from offset 0: the text alone when it is at least as long as what was
\* on disk; otherwise the text followed by the tail of what was there,
\* which json.load rejects ("Extra data").
WrittenOver(file, records) ==
    IF TextLength(records) >= file.length
    THEN DiskFile(TRUE, records, TextLength(records))
    ELSE DiskFile(FALSE, <<>>, file.length)

\* A request in flight.
Request(op, jira_ticket) ==
    [op |-> op, jira_ticket |-> jira_ticket, pc |-> "called", buffer |-> <<>>,
     ret |-> None]

\* The history the process holds when the two requests arrive: empty, or
\* one estimate of PROJ-2 without actual hours.
ServedHistories ==
    {<<>>, <<HistoryRecord("PROJ-2", 8000, "Medium", "ai_powered", NoHours)>>}

\* /estimate for PROJ-1 at the same time as /estimate or
\* /update-actual-hours for PROJ-2.
InitInterleaved ==
    /\ cache = << >>
    /\ history \in ServedHistories
    /\ client = FALSE
    /\ last = [op |-> "init"]
    /\ pending_designs = << >>
    /\ approved_designs = << >>
    /\ store = DiskFile(TRUE, history, TextLength(history))
    /\ \E op \in {"record_estimation", "update_actual_hours"} :
          inflight = <<Request("record_estimation", "PROJ-1"), Request(op, "PROJ-2")>>

\* self.history.append(record), or the assignments to the record found;
\* update_actual_hours returns False when the ticket has no record.
Changed(t, r) ==
    /\ history' = r.history
    /\ inflight' = [inflight EXCEPT
                       ![t].pc = IF r.raised = None /\ r.ret # "False"
                                 THEN "changed" ELSE "returned",
                       ![t].ret = r.ret]
    /\ UNCHANGED <<cache, client, last, store, pending_designs, approved_designs>>

ChangeHistory ==
    \E t \in DOMAIN inflight :
        /\ inflight[t].pc = "called"
        /\ Changed(t, IF inflight[t].op = "record_estimation"
                      THEN [ret |-> None] @@
                           record_estimation(history, inflight[t].jira_ticket, 8000,
                                             "Medium", "rule_based_fallback", NoHours)
                      ELSE update_actual_hours(history, inflight[t].jira_ticket, 6000))

\* with open(self.data_file, 'w') as f
OpenFile ==
    \E t \in DOMAIN inflight :
        /\ inflight[t].pc = "changed"
        /\ store' = Truncated
        /\ inflight' = [inflight EXCEPT ![t].pc = "opened"]
        /\ UNCHANGED <<cache, history, client, last, pending_designs, approved_designs>>

\* json.dump(self.history, f, indent=2)
DumpHistory ==
    \E t \in DOMAIN inflight :
        /\ inflight[t].pc = "opened"
        /\ inflight' = [inflight EXCEPT ![t].pc = "dumped", ![t].buffer = history]
        /\ UNCHANGED <<cache, history, client, last, store, pending_designs, approved_designs>>

\* The with block ends: the buffer is written and the call returns.
CloseFile ==
    \E t \in DOMAIN inflight :
        /\ inflight[t].pc = "dumped"
        /\ store' = WrittenOver(store, inflight[t].buffer)
        /\ inflight' = [inflight EXCEPT
                           ![t].pc = "returned",
                           ![t].ret = IF inflight[t].op = "record_estimation"
                                      THEN "record" ELSE "True"]
        /\ last' = [op |-> inflight[t].op, jira_ticket |-> inflight[t].jira_ticket]
        /\ UNCHANGED <<cache, history, client, pending_designs, approved_designs>>

NextInterleaved == ChangeHistory \/ OpenFile \/ DumpHistory \/ CloseFile

SpecInterleaved == InitInterleaved /\ [][NextInterleaved]_vars

----------------------------------------------------------------------------
(* The cross-dependency stage over lists of linked issues                  *)

\* The longest list of linked issues analysed.
MaxLinks == 5

\* The linked issues a ticket may have: a blocking, a depending, a related
\* and a duplicating issue, and a blocking issue whose summary names two
\* enterprise terms.
LinkKinds ==
    {Link("PROJ-7", t, "Payment screen") :
        t \in {"blocks", "is depended on by", "relates to", "duplicates"}}
    \cup {Link("PROJ-7", "is blocked by", "IIB API integration")}

LinkLists == UNION {[1..n -> LinkKinds] : n \in 0..MaxLinks}

\* The estimate the stage is given.
StageInput ==
    [total_hours |-> 8000, complexity |-> "Medium", confidence |-> 70,
     reasoning |-> "Standard feature work", phases |-> Phases(1200, 1600, 3840, 1200, 160)]

InitLinks ==
    /\ cache = << >>
    /\ history = <<>>
    /\ client = FALSE
    /\ store = StoredFile(<<>>)
    /\ inflight = << >>
    /\ pending_designs = << >>
    /\ approved_designs = << >>
    /\ \E links \in LinkLists :
          last = [op |-> "ticket",
                  jira_data |-> Ticket("To Do", PlainText, links, FALSE, Quiet)]

\* _apply_intelligent_cross_dependency_analysis(estimation, jira_data)
AnalyzeLinks ==
    /\ last.op = "ticket"
    /\ last' = [op |-> "cross_dependency", jira_data |-> last.jira_data,
                before |-> StageInput,
                after |-> ApplyIntelligentCrossDependencyAnalysis(StageInput,
                                                                  last.jira_data)]
    /\ UNCHANGED <<cache, history, client, store, inflight, pending_designs, approved_designs>>

NextLinks == AnalyzeLinks

SpecLinks == InitLinks /\ [][NextLinks]_vars

----------------------------------------------------------------------------
(* Status-based filtering over the statuses of a ticket                    *)

\* The statuses a ticket is fetched with: every status the filter names,
\* as Jira spells some of them, and statuses it does not name.
FilteredStatuses ==
    QaStatuses \cup UatStatuses \cup DoneStatuses \cup DevStatuses
    \cup {"QA", "UAT", "Done", "In Progress", "Ready for Deployment",
          "To Do", "Backlog", "Code Review"}

\* The estimates the filter is given: 104 hours by the default weights, the
\* phases of the security cap, and a reply whose phases sum to 96.4 hours
\* under a total of 100.
FilterInputs ==
    {[total_hours |-> 10400, complexity |-> "Medium", reasoning |-> "Standard feature work",
      phases |-> Phases(1560, 2080, 4990, 1560, 210)],
     [total_hours |-> 3200, complexity |-> "Low", reasoning |-> "Patch the CVE",
      phases |-> BlackduckPhases],
     [total_hours |-> 10000, complexity |-> "Medium", reasoning |-> "Moderate work",
      phases |-> Phases(1213, 2057, 4633, 1517, 220)]}

\* The tickets the filter is given: one of each status, one without a
\* status and none.
FilterTickets ==
    {Ticket(status, PlainText, <<>>, FALSE, Quiet) : status \in FilteredStatuses}
    \cup {FlagOnly(FALSE), NoDict}

InitFiltering ==
    /\ cache = << >>
    /\ history = <<>>
    /\ client = FALSE
    /\ store = StoredFile(<<>>)
    /\ inflight = << >>
    /\ pending_designs = << >>
    /\ approved_designs = << >>
    /\ \E estimation \in FilterInputs, jira_data \in FilterTickets :
          last = [op |-> "given", estimation |-> estimation, jira_data |-> jira_data]

\* _apply_status_based_filtering(estimation, jira_data)
FilterByStatus ==
    /\ last.op = "given"
    /\ last' = [op |-> "status_filtering", jira_data |-> last.jira_data,
                before |-> last.estimation,
                after |-> ApplyStatusBasedFiltering(last.estimation, last.jira_data)]
    /\ UNCHANGED <<cache, history, client, store, inflight, pending_designs, approved_designs>>

NextFiltering == FilterByStatus

SpecFiltering == InitFiltering /\ [][NextFiltering]_vars

----------------------------------------------------------------------------
(* get_improved_estimate over estimates and histories                      *)

\* The estimates get_improved_estimate is given: each tier with the phases
\* of 104 hours to 2 places and to 1 place, of the security cap, of a
\* reply split unevenly and of a ticket that is done.
ImproveInputs ==
    {[total_hours |-> SumPhases(phases), complexity |-> c,
      reasoning |-> "Standard feature work", phases |-> phases,
      estimation_method |-> "ai_powered", ai_confidence |-> 95] :
        c \in Tiers,
        phases \in {Phases(1560, 2080, 4992, 1560, 208),
                    Phases(1560, 2080, 4990, 1560, 210),
                    BlackduckPhases,
                    Phases(1213, 2057, 4633, 1517, 220),
                    Phases(0, 0, 0, 0, 0)}}

\* The histories the learning system holds when it is called.
ImproveHistories == {<<>>, TwoOfATier, LearnedHistory, DoneTicketHistory}

InitImprove ==
    /\ cache = << >>
    /\ history \in ImproveHistories
    /\ client = FALSE
    /\ store = StoredFile(history)
    /\ inflight = << >>
    /\ pending_designs = << >>
    /\ approved_designs = << >>
    /\ \E base_estimate \in ImproveInputs :
          last = [op |-> "given", base_estimate |-> base_estimate]

\* learning_system.get_improved_estimate(base_estimate): what it returned
\* (or raised) and the argument as the call left it.
ImproveEstimate ==
    /\ last.op = "given"
    /\ last' = [op |-> "get_improved_estimate", before |-> last.base_estimate,
                returned |-> GetImprovedEstimate(last.base_estimate, history),
                argument |-> ArgumentAfterImproved(last.base_estimate, history)]
    /\ UNCHANGED <<cache, history, client, store, inflight, pending_designs, approved_designs>>

NextImprove == ImproveEstimate

SpecImprove == InitImprove /\ [][NextImprove]_vars

----------------------------------------------------------------------------
(* DesignApprovalWorkflow                                                  *)

\* The most designs the workflow runs hold, pending and approved together.
MaxDesigns == 4

\* str(n)
Decimal(n) ==
    LET digit(d) == CASE d = 0 -> "0" [] d = 1 -> "1" [] d = 2 -> "2" [] d = 3 -> "3"
                      [] d = 4 -> "4" [] d = 5 -> "5" [] d = 6 -> "6" [] d = 7 -> "7"
                      [] d = 8 -> "8" [] OTHER -> "9"
    IN  IF n < 10 THEN digit(n) ELSE digit(n \div 10) \o digit(n % 10)

\* approval_id = f"design_{ticket_key}_{len(self.pending_designs)}"
ApprovalId(ticket_key, pending) ==
    "design_" \o ticket_key \o "_" \o Decimal(Cardinality(DOMAIN pending))

\* submit_for_approval: the entry is stored under the id, in place of
\* whatever the id held, and the id is returned.
submit_for_approval(pending, ticket_key, design, approvers) ==
    LET approval_id == ApprovalId(ticket_key, pending) IN
    [ret |-> approval_id,
     pending |-> Put(pending, approval_id,
                     [ticket_key |-> ticket_key, design |-> design,
                      approvers |-> approvers, status |-> "pending",
                      submitted_at |-> "{\"timestamp\": \"now\"}",
                      comments |-> <<>>])]

\* approve_design: a pending entry moves to approved_designs under its id,
\* in place of whatever the id held there.
approve_design(pending, approved, approval_id, approver) ==
    IF approval_id \in DOMAIN pending
    THEN [ret |-> TRUE,
          approved |-> Put(approved, approval_id,
                           [status |-> "approved", approved_by |-> approver]
                               @@ pending[approval_id]),
          pending |-> [k \in DOMAIN pending \ {approval_id} |-> pending[k]]]
    ELSE [ret |-> FALSE, approved |-> approved, pending |-> pending]

\* The designs submitted, told apart by their overview.
Designs == {[solution_overview |-> "Export as CSV"],
            [solution_overview |-> "Export as XLSX"]}

Approvers == <<"lead">>

\* The ids approve_design is called with: those issued so far and one
\* that was never issued.
KnownIds == DOMAIN pending_designs \cup DOMAIN approved_designs \cup {"design_PROJ-9_0"}

InitWorkflow ==
    /\ cache = << >>
    /\ history = <<>>
    /\ client = FALSE
    /\ last = [op |-> "init"]
    /\ pending_designs = << >>
    /\ approved_designs = << >>
    /\ store = StoredFile(<<>>)
    /\ inflight = << >>

\* A call of submit_for_approval, as the design-generation handler makes it.
SubmitForApproval ==
    /\ Cardinality(DOMAIN pending_designs) + Cardinality(DOMAIN approved_designs)
          < MaxDesigns
    /\ \E ticket_key \in Tickets, design \in Designs :
          LET r == submit_for_approval(pending_designs, ticket_key, design, Approvers) IN
          /\ pending_designs' = r.pending
          /\ last' = [op |-> "submit_for_approval", ticket_key |-> ticket_key,
                      design |-> design, ret |-> r.ret]
    /\ UNCHANGED <<cache, history, client, store, inflight, approved_designs>>

\* A call of approve_design, as /approve-design makes it for an approval.
ApproveDesign ==
    /\ \E approval_id \in KnownIds :
          LET r == approve_design(pending_designs, approved_designs, approval_id, "lead") IN
          /\ pending_designs' = r.pending
          /\ approved_designs' = r.approved
          /\ last' = [op |-> "approve_design", approval_id |-> approval_id,
                      ret |-> r.ret]
    /\ UNCHANGED <<cache, history, client, store, inflight>>

NextWorkflow == SubmitForApproval \/ ApproveDesign

SpecWorkflow == InitWorkflow /\ [][NextWorkflow]_vars

----------------------------------------------------------------------------
(* Properties of the estimates served                                      *)

\* sum(phases.values()) = total_hours within 0.01 h
SumsToTotal(estimation) ==
    Abs(SumPhases(estimation["phases"]) - estimation["total_hours"]) <= 1

\* The ticket's own summary or description names BlackDuck or a CVE.
IsSecurityTicket(jira_data) ==
    /\ Truthy(jira_data)
    /\ AnyIn({"blackduck", "cve"},
             Lower(Get(jira_data, "summary", "") \o " " \o Get(jira_data, "description", "")))

\* The ticket's status triggers no status-based filtering.
Unfiltered(jira_data) == ZeroedPhases(Lower(Get(jira_data, "status", ""))) = {}

\* C1: for every estimate handled by estimate_with_ai, the phase hours sum
\* to total_hours within 0.01 after each pipeline stage that changes hours
\* and in the estimate finally returned.
C1_PhasesSumToTotal ==
    last.op = "estimate_with_ai" =>
        /\ \A i \in 1..Len(last.stages) :
              ~IsExc(last.stages[i]) => SumsToTotal(last.stages[i])
        /\ SumsToTotal(last.estimate)

\* C2: for every ticket that names BlackDuck or a CVE and whose status
\* triggers no status-based filtering, the estimate delivered has
\* total_hours = 32, complexity Low and phases 4/0/24/3/1, whatever the
\* other pipeline stages would produce.
C2_SecurityCapAbsolute ==
    (/\ last.op = "estimate_with_ai"
     /\ IsSecurityTicket(last.jira_data)
     /\ Unfiltered(last.jira_data))
    => /\ last.estimate["total_hours"] = 3200
       /\ last.estimate["complexity"] = "Low"
       /\ last.estimate["phases"] = Phases(400, 0, 2400, 300, 100)

\* C3: for every ticket whose status is Done (or another status of the
\* done family), the estimate returned by estimate_with_ai on any path has
\* every phase equal to 0 and total_hours equal to 0.
C3_DoneIsZero ==
    (/\ last.op = "estimate_with_ai"
     /\ Truthy(last.jira_data)
     /\ Lower(Get(last.jira_data, "status", ""))
            \in {"done", "closed", "resolved", "deployed", "production"})
    => /\ last.estimate["total_hours"] = 0
       /\ \A p \in PhaseNames : last.estimate["phases"][p] = 0

\* C4: within one process lifetime, two estimate requests with the same
\* description and the same cache-key ticket fields receive identical
\* estimates (total_hours, phases, complexity and reasoning), whatever was
\* done with the estimate returned before; stated of two requests served
\* one after the other.
C4_SameKeySameEstimate ==
    [][ (/\ last.op \in {"estimate", "estimate_with_ai"}
         /\ last'.op \in {"estimate", "estimate_with_ai"}
         /\ CacheKey(last'.description, last'.jira_data)
                = CacheKey(last.description, last.jira_data))
        => /\ last'.estimate["total_hours"] = last.estimate["total_hours"]
           /\ last'.estimate["phases"] = last.estimate["phases"]
           /\ last'.estimate["complexity"] = last.estimate["complexity"]
           /\ last'.estimate["reasoning"] = last.estimate["reasoning"] ]_vars

\* C5: for every estimate and any ticket metadata or none, the value
\* _calculate_reliable_confidence returns is an integer in 90..95: of the
\* estimate after each stage, of the estimate returned, and as stored in
\* the estimate by the path that computed it.
C5_ConfidenceRange ==
    last.op = "estimate_with_ai" =>
        /\ \A i \in 1..Len(last.stages) :
              ~IsExc(last.stages[i]) =>
                  CalculateReliableConfidence(last.stages[i], last.jira_data) \in 90..95
        /\ CalculateReliableConfidence(last.estimate, last.jira_data) \in 90..95
        /\ last.estimate["estimation_method"] = "ai_powered"
              => last.estimate["ai_confidence"] \in 90..95
        /\ last.estimate["estimation_method"] \in {"rule_based_fallback", "ai_extracted"}
              => last.estimate["confidence"] \in 90..95

\* A model-parsed estimate whose confidence before the clamp was under 90,
\* and whose stored confidence is the floor.
C5_Witness ==
    /\ last.op = "estimate_with_ai"
    /\ last.path = "parsed"
    /\ last.estimate["estimation_method"] = "ai_powered"
    /\ BaseConfidence(last.stages[5], last.jira_data) < 90
    /\ last.estimate["ai_confidence"] = 90

\* C6: when the gateway is unavailable (no client) or raises,
\* estimate_with_ai does not raise: it makes at most one gateway attempt,
\* returns an estimate with estimation_method rule_based_fallback and
\* stores that estimate in the cache under the request's key.
C6_FallbackOnGatewayFailure ==
    (/\ last.op = "estimate_with_ai"
     /\ (~client \/ last.gateway.raises))
    => /\ ~IsExc(last.estimate)
       /\ last.attempts <= 1
       /\ ~client => last.attempts = 0
       /\ last.estimate["estimation_method"] = "rule_based_fallback"
       /\ CacheKey(last.description, last.jira_data) \in DOMAIN cache
       /\ cache[CacheKey(last.description, last.jira_data)] = last.estimate

\* The gateway was called once and raised.
C6_Witness ==
    /\ last.op = "estimate_with_ai"
    /\ client
    /\ last.gateway.raises
    /\ last.attempts = 1
    /\ last.estimate["estimation_method"] = "rule_based_fallback"
    /\ cache[CacheKey(last.description, last.jira_data)] = last.estimate

\* C9: when the AI-tools discount is applied to a 104-hour estimate with
\* default-weighted phases, each phase is reduced by its percentage of its
\* prior value (development 30%, requirements 15%, design 25%, testing
\* 20%, deployment 10%), to the hundredth of an hour, and the new total is
\* the original total minus the sum of the five reductions.
C9_AiToolsExactReduction ==
    (/\ last.op = "estimate_with_ai"
     /\ Len(last.stages) >= 5
     /\ ~IsExc(last.stages[5])
     /\ Get(last.jira_data, "uses_ai_tools", FALSE)
     /\ last.stages[4]["total_hours"] = 10400
     /\ last.stages[4]["phases"] \in {Phases(1560, 2080, 4992, 1560, 208),
                                       Phases(1560, 2080, 4990, 1560, 210)})
    => LET before == last.stages[4]["phases"]
           after == last.stages[5]["phases"]
           percent == Phases(15, 25, 30, 20, 10)
       IN  /\ \A p \in PhaseNames :
                 Abs(100 * (before[p] - after[p]) - percent[p] * before[p]) <= 100
           /\ last.stages[5]["total_hours"]
                 = last.stages[4]["total_hours"]
                   - SumSeq(<<before.requirements - after.requirements,
                              before.design - after.design,
                              before.development - after.development,
                              before.testing - after.testing,
                              before.deployment - after.deployment>>)

\* The description holds a trigger term and a native-platform term, the
\* estimate is the heuristic fallback's and no status filtering applies.
UpgradeNativeFallback ==
    /\ last.op = "estimate_with_ai"
    /\ last.estimate["estimation_method"] = "rule_based_fallback"
    /\ AnyIn({"react native", "upgrade", "migration"}, Lower(last.description))
    /\ AnyIn({"objective-c", "swift", "native"}, Lower(last.description))
    /\ Unfiltered(last.jira_data)

FallbackWithoutTicket ==
    /\ last.op = "estimate_with_ai"
    /\ last.path \in {"no_client", "gateway_raised", "pipeline_raised"}
    /\ ~Truthy(last.jira_data)

\* 2 per high-signal keyword plus 1 per medium-signal keyword
KeywordScore(description) ==
    2 * Cardinality({k \in HighKeywords : Contains(Lower(description), k)})
        + Cardinality({k \in MediumKeywords : Contains(Lower(description), k)})

\* C11: on the heuristic fallback path without ticket metadata, a
\* description with no trigger term and no enterprise-integration term is
\* classified by its keyword score alone: High and 160 hours from 4, Medium
\* and 80 hours from 2, Low and 40 hours below; the login-form description
\* yields Low and 40 hours.
C11_FallbackTierByScore ==
    /\ (/\ FallbackWithoutTicket
        /\ ~AnyIn({"react native", "upgrade", "migration"}, Lower(last.description))
        /\ ~AnyIn({"iib", "ibm integration bus", "sap", "mainframe",
                   "enterprise integration", "cross-system", "multi-system"},
                  Lower(last.description)))
       => <<last.estimate["complexity"], last.estimate["total_hours"]>>
             = IF KeywordScore(last.description) >= 4 THEN <<"High", 16000>>
               ELSE IF KeywordScore(last.description) >= 2 THEN <<"Medium", 8000>>
               ELSE <<"Low", 4000>>
    /\ (/\ FallbackWithoutTicket
        /\ last.description = "Create a simple login form with username and password")
       => /\ last.estimate["complexity"] = "Low"
          /\ last.estimate["total_hours"] = 4000

\* The fallback estimated the login form, given without a ticket, Low at
\* 40 hours.
C11_Witness ==
    /\ FallbackWithoutTicket
    /\ last.description = "Create a simple login form with username and password"
    /\ KeywordScore(last.description) = 1
    /\ last.estimate["complexity"] = "Low"
    /\ last.estimate["total_hours"] = 4000

----------------------------------------------------------------------------
(* Properties of the history under a faulty file and restarts              *)

\* The fields of a record other than actual_hours and accuracy.
Identity(record) ==
    <<record.jira_ticket, record.estimated_hours, record.complexity, record.method>>

\* C12: the history is append-only: no step of the service (an estimate
\* recorded, actual hours reported, the history loaded again at a start)
\* removes or reorders a record, and only actual_hours and accuracy of an
\* existing record change.
C12_HistoryAppendOnly ==
    [][/\ Len(history') >= Len(history)
       /\ \A i \in 1..Len(history) : Identity(history'[i]) = Identity(history[i])]_vars

\* C13: when the write of the history file fails while /estimate records
\* the estimate, the request is still answered with the computed estimate
\* and the history in memory is the history the file holds.
C13_SaveFailureStillAnswers ==
    (/\ last.op = "estimate"
     /\ last.save # "written"
     /\ "error" \notin DOMAIN last.computed)
    => /\ last.response = last.computed
       /\ history = load_history(store)

----------------------------------------------------------------------------
(* Properties of the policy stages                                         *)

\* The reply was decoded and every stage up to the AI-tools discount ran
\* without raising.
StagesRan ==
    /\ last.op = "estimate_with_ai"
    /\ last.path = "parsed"
    /\ Len(last.stages) = Len(StageNames)
    /\ \A k \in 1..5 : ~IsExc(last.stages[k])

\* The hours of an estimate: total, phases and complexity.
Hours(estimation) ==
    <<estimation["total_hours"], estimation["phases"], estimation["complexity"]>>

\* The estimate the stages would leave after the AI-tools discount were
\* they run in the order security cap, competitive cap, cross-dependency
\* adjustment, status-based filtering, historical adjustment, AI-tools
\* discount.
StatusFilteredFourth(estimation, jira_data) ==
    ApplyAiToolsEfficiency(
        ApplyHistoricalAdjustment(
            ApplyStatusBasedFiltering(
                ApplyIntelligentCrossDependencyAnalysis(
                    ApplyCompetitiveCapping(BlackduckCapped(estimation, jira_data),
                                            jira_data),
                    jira_data),
                jira_data),
            jira_data),
        jira_data)

\* C14: on the model-parsed path the stages run in the order security
\* cap, competitive cap, cross-dependency adjustment, status-based
\* filtering, historical adjustment, AI-tools discount: the hours after the
\* AI-tools discount are the hours that order gives.
C14_StatusFilteringAfterCrossDependency ==
    StagesRan
    => Hours(last.stages[5])
          = Hours(StatusFilteredFourth(last.gateway.reply.obj, last.jira_data))

\* C15: the competitive cap reaches every estimate estimate_with_ai
\* returns, model-parsed, extracted from the reply text or rule-based: none
\* is above 150 hours.
C15_NoEstimateAbove150 ==
    last.op = "estimate_with_ai" => last.estimate["total_hours"] <= 15000

\* The reply was decoded with its required fields for a ticket that names
\* an enterprise system and has no linked issue.
EnterpriseTicketWithoutLinks ==
    /\ last.op = "estimate_with_ai"
    /\ last.path = "parsed"
    /\ Len(last.stages) = Len(StageNames)
    /\ Truthy(last.jira_data)
    /\ AnyIn({"iib", "ibm integration bus", "sap", "mainframe", "enterprise service bus"},
             Lower(Get(last.jira_data, "summary", "") \o " "
                   \o Get(last.jira_data, "description", "")))
    /\ Get(last.jira_data, "linked_issues", <<>>) = <<>>

\* C16: on the model-parsed path an enterprise-system ticket without linked
\* issues leaves the cross-dependency stage at 104 hours, Medium, with the
\* phases of 104 hours, and the remaining stages run on it.
C16_EnterpriseBaseline104 ==
    EnterpriseTicketWithoutLinks
    => /\ ~IsExc(last.stages[3])
       /\ last.stages[3]["total_hours"] = 10400
       /\ last.stages[3]["complexity"] = "Medium"
       /\ last.stages[3]["phases"] = Phases(1560, 2080, 4990, 1560, 210)
       /\ \A k \in 4..Len(StageNames) : ~IsExc(last.stages[k])
       /\ last.estimate["estimation_method"] = "ai_powered"

\* 8 for a blocking link, 5 for a depending one, 2 for a related one, plus
\* 4 when the summary matches at least 2 enterprise keywords.
ClaimedLinkHours(link) ==
    (IF Lower(link["type"]) \in {"blocks", "is blocked by"} THEN 800
     ELSE IF Lower(link["type"]) \in {"depends on", "is depended on by"} THEN 500
     ELSE IF Lower(link["type"]) \in {"relates to", "is related to"} THEN 200
     ELSE 0)
    + (IF Cardinality({k \in {"iib", "sap", "mainframe", "integration", "api", "database"} :
                          Contains(Lower(link["summary"]), k)}) >= 2
       THEN 400 ELSE 0)

RECURSIVE ClaimedSum(_)
ClaimedSum(links) ==
    IF Len(links) = 0 THEN 0
    ELSE ClaimedLinkHours(links[1]) + ClaimedSum(SubSeq(links, 2, Len(links)))

ClaimedCap(links) ==
    IF Len(links) <= 2 THEN 1500 ELSE IF Len(links) <= 4 THEN 2500 ELSE 4000

Zeroing(phases, zeroed) ==
    [requirements |-> IF "requirements" \in zeroed THEN 0 ELSE phases["requirements"],
     design       |-> IF "design" \in zeroed THEN 0 ELSE phases["design"],
     development  |-> IF "development" \in zeroed THEN 0 ELSE phases["development"],
     testing      |-> IF "testing" \in zeroed THEN 0 ELSE phases["testing"],
     deployment   |-> IF "deployment" \in zeroed THEN 0 ELSE phases["deployment"]]

\* The lower-cased status of the ticket the filter was given ("" without one).
FilterStatus == Lower(Get(last.jira_data, "status", ""))

\* C18: status-based filtering zeroes requirements, design and development
\* for the QA family, everything but deployment for the UAT family, all
\* five phases for the done family, requirements and design for the
\* in-progress family, and changes no other phase; afterwards total_hours
\* is the sum of the phases; a ticket of any other status keeps its phases.
C18_StatusFamiliesZeroPhases ==
    last.op = "status_filtering"
    => /\ ~IsExc(last.after)
       /\ last.after["phases"]
             = Zeroing(last.before["phases"],
                       IF FilterStatus \in {"qa", "sit", "testing", "ready for testing",
                                            "in testing"}
                       THEN {"requirements", "design", "development"}
                       ELSE IF FilterStatus \in {"uat", "user acceptance testing",
                                                 "ready for deployment", "staging"}
                       THEN {"requirements", "design", "development", "testing"}
                       ELSE IF FilterStatus \in {"done", "closed", "resolved", "deployed",
                                                 "production"}
                       THEN {"requirements", "design", "development", "testing",
                             "deployment"}
                       ELSE IF FilterStatus \in {"in progress", "development", "coding",
                                                 "in development"}
                       THEN {"requirements", "design"}
                       ELSE {})
       /\ (Truthy(last.jira_data) /\ "status" \in DOMAIN last.jira_data)
              => last.after["total_hours"] = SumPhases(last.after["phases"])

\* A ticket in UAT kept its deployment hours only.
C18_Witness ==
    /\ last.op = "status_filtering"
    /\ FilterStatus = "uat"
    /\ last.before["phases"]["testing"] > 0
    /\ last.after["phases"] = Phases(0, 0, 0, 0, last.before["phases"]["deployment"])
    /\ last.after["total_hours"] = last.before["phases"]["deployment"]

----------------------------------------------------------------------------
(* Properties of the heuristic fallback                                    *)

\* The estimate is the heuristic fallback's.
FallbackPath ==
    /\ last.op = "estimate_with_ai"
    /\ last.path \in {"no_client", "gateway_raised", "pipeline_raised"}

\* The ticket given is no security ticket, so the security cap left the
\* estimate alone.
Uncapped ==
    ~(Truthy(last.jira_data)
      /\ AnyIn({"blackduck", "security vulnerability", "cve", "dependency update",
                "version upgrade"},
               Lower(Get(last.jira_data, "summary", "") \o " "
                     \o Get(last.jira_data, "description", ""))))

\* C19: on the heuristic fallback path every description with an
\* enterprise-integration term is classified Medium with base hours 80,
\* whatever the keyword score and the other rules give.
C19_EnterpriseIsMedium80 ==
    (/\ FallbackPath
     /\ Uncapped
     /\ AnyIn({"iib", "sap", "mainframe", "enterprise integration", "cross-system",
               "multi-system"}, Lower(last.description)))
    => /\ last.estimate["complexity"] = "Medium"
       /\ Unfiltered(last.jira_data) => last.estimate["total_hours"] = 8000

\* t with every occurrence of k taken out.
RECURSIVE Without(_, _)
Without(t, k) ==
    IF Len(t) < Len(k) THEN t
    ELSE IF SubSeq(t, 1, Len(k)) = k THEN Without(SubSeq(t, Len(k) + 1, Len(t)), k)
    ELSE SubSeq(t, 1, 1) \o Without(SubSeq(t, 2, Len(t)), k)

\* The description names native-platform work: objective-c, swift, or
\* native other than in "react native".
NativePlatformWork(description) ==
    AnyIn({"objective-c", "swift", "native"}, Without(Lower(description), "react native"))

\* C20: on the heuristic fallback path a description with a trigger term
\* (react native, upgrade, migration), without native-platform work and
\* without an enterprise term, yields High with base hours 200, also when
\* its only trigger is "react native".
C20_TriggerAloneIs200 ==
    (/\ FallbackPath
     /\ Uncapped
     /\ AnyIn({"react native", "upgrade", "migration"}, Lower(last.description))
     /\ ~NativePlatformWork(last.description)
     /\ ~AnyIn({"iib", "ibm integration bus", "sap", "mainframe",
                "enterprise integration", "cross-system", "multi-system"},
               Lower(last.description)))
    => /\ last.estimate["complexity"] = "High"
       /\ Unfiltered(last.jira_data) => last.estimate["total_hours"] = 20000

----------------------------------------------------------------------------
(* Properties of the learning adjustment                                   *)

\* The reply was decoded and every stage ran without raising: stages[6] is
\* the estimate the learning stage was given, stages[7] the one returned.
ParsedSuccess ==
    /\ last.op = "estimate_with_ai"
    /\ last.path = "parsed"
    /\ Len(last.stages) = Len(StageNames)
    /\ \A k \in 1..Len(StageNames) : ~IsExc(last.stages[k])

\* after is before with total_hours and every phase multiplied by the mean
\* of actual/estimated over the completed records of before's complexity,
\* to the hundredth of an hour.
ScaledByTierMean(before, after, h) ==
    /\ "adjustment_factor" \in DOMAIN after
    /\ IsMeanRatio(after["adjustment_factor"], h, TierIndices(h, before["complexity"]))
    /\ LET f == after["adjustment_factor"] IN
       /\ 2 * Abs(after["total_hours"] * f[2] - before["total_hours"] * f[1]) <= f[2]
       /\ \A p \in PhaseNames :
             2 * Abs(after["phases"][p] * f[2] - before["phases"][p] * f[1]) <= f[2]
    /\ after["complexity"] = before["complexity"]

\* The learning stage scaled the estimate when `qualifies` and left its
\* hours alone otherwise, and no other path depends on the history: the
\* same call over an empty history returns the same estimate.
LearningAppliedExactlyWhen(qualifies) ==
    /\ ParsedSuccess =>
          IF qualifies
          THEN ScaledByTierMean(last.stages[6], last.stages[7], history)
          ELSE Hours(last.stages[7]) = Hours(last.stages[6])
    /\ (last.op = "estimate_with_ai" /\ ~ParsedSuccess) =>
          /\ "adjustment_factor" \notin DOMAIN last.estimate
          /\ last.estimate
                = EstimateWithAi(<< >>, <<>>, client, last.description,
                                 last.jira_data, last.gateway).estimate

RatiosDefined(h) ==
    \A c \in Tiers :
        Cardinality(TierIndices(h, c)) >= 2
            => \A i \in TierIndices(h, c) : h[i].estimated_hours # 0

FactorExists ==
    /\ Cardinality(CompletedIndices(history)) >= 3
    /\ Cardinality(TierIndices(history, last.before["complexity"])) >= 2

\* C22: get_improved_estimate always tags the estimate it returns with
\* whether the adjustment was applied and with the factor used, when a
\* factor exists for the estimate's complexity and when none does; in the
\* second case hours and phases are unchanged.
C22_AlwaysTagged ==
    (last.op = "get_improved_estimate" /\ ~IsExc(last.returned))
    => /\ "learning_applied" \in DOMAIN last.returned
       /\ "adjustment_factor" \in DOMAIN last.returned
       /\ last.returned["learning_applied"] = FactorExists
       /\ ~FactorExists =>
             /\ last.returned["total_hours"] = last.before["total_hours"]
             /\ last.returned["phases"] = last.before["phases"]

\* C30: get_improved_estimate leaves its argument unchanged: after the
\* call total_hours and every entry of the phases map of the estimate
\* passed in have the values they had before, whether or not a factor was
\* applied to the estimate returned.
C30_ArgumentUnchanged ==
    last.op = "get_improved_estimate"
    => /\ last.argument["total_hours"] = last.before["total_hours"]
       /\ \A p \in PhaseNames : last.argument["phases"][p] = last.before["phases"][p]

----------------------------------------------------------------------------
(* Properties of the phase allocation                                      *)

\* The phases the request includes: the standard phases and the request's
\* custom phases that its selection mask does not exclude.
Included ==
    {p \in {"requirements", "design", "development", "testing", "deployment"}
           \cup DOMAIN last.request.custom_phases :
        p \notin DOMAIN last.request.selected_phases \/ last.request.selected_phases[p]}

\* The weight the request gives a phase, 0 when it names none.
Weight(p) ==
    IF p \in DOMAIN last.request.phase_percentages
    THEN last.request.phase_percentages[p] ELSE 0

\* C23: in the phase allocation of /estimate, for every selection mask and
\* weight mapping, the reported phases are exactly the included phases,
\* standard and custom, each with hours = total x weight/100 rounded to 2
\* decimals; excluded phases are absent; and the reported total_hours is
\* the sum of the included phases' hours.
C23_AllocationOverIncludedPhases ==
    last.op = "estimate"
    => /\ DOMAIN last.response["phases"] = Included
       /\ \A p \in Included :
             2 * Abs(100 * last.response["phases"][p] - last.base_total * Weight(p)) <= 100
       /\ last.response["total_hours"]
             = SumOver(last.response["phases"], DOMAIN last.response["phases"])

----------------------------------------------------------------------------
(* Properties of requests served at once                                   *)

\* Both requests have returned.
BothReturned ==
    /\ Len(inflight) = 2
    /\ \A t \in 1..2 : inflight[t].pc = "returned"

\* The file holds what request t did: the record it appended, or the
\* actual hours it reported when the ticket had a record.
Persisted(t) ==
    IF inflight[t].op = "record_estimation"
    THEN \E i \in 1..Len(store.records) :
            store.records[i].jira_ticket = inflight[t].jira_ticket
    ELSE inflight[t].ret = "True" =>
            \E i \in 1..Len(store.records) :
                /\ store.records[i].jira_ticket = inflight[t].jira_ticket
                /\ store.records[i].actual_hours = 6000

\* C24: when two requests that record or update the history for different
\* tickets run interleaved in one process, each save being open-truncate,
\* write all records, close, then once both have finished the history file
\* is complete JSON and holds both requests' records.
C24_InterleavedSavesKeepFile ==
    BothReturned
    => /\ store.readable
       /\ Persisted(1)
       /\ Persisted(2)

\* The confidences the last request reported for 'ai_powered' estimates,
\* each with the estimate estimate_with_ai returned for it.
ReportedConfidences ==
    IF last.op = "estimate" /\ "estimation_method" \in DOMAIN last.response
    THEN IF last.response["estimation_method"] = "ai_powered"
         THEN {<<last.response["ai_confidence"], last.estimate>>} ELSE {}
    ELSE IF "row" \in DOMAIN last /\ last.row["status"] = "success"
    THEN IF Get(last.estimate, "estimation_method", None) = "ai_powered"
         THEN {<<last.row["ai_confidence"], last.estimate>>} ELSE {}
    ELSE {}

\* C25: an estimate reported as 'ai_powered' by /estimate or by a row of
\* /bulk-estimate carries as its confidence the value the confidence
\* calculator stored for it, a value within 90..95, whatever confidence
\* the model wrote in its reply.
C25_ReportedConfidenceIsCalculated ==
    \A reported \in ReportedConfidences :
        /\ reported[1] \in 90..95
        /\ reported[1] = Get(reported[2], "ai_confidence", None)

\* The last call reached the gateway and the reply decoded to a JSON object
\* with total_hours, complexity, phases and reasoning.
WellFormedReply ==
    /\ last.op = "estimate_with_ai"
    /\ last.attempts = 1
    /\ "reply" \in DOMAIN last.gateway
    /\ last.gateway.reply.decodes
    /\ {"total_hours", "complexity", "phases", "reasoning"}
           \subseteq DOMAIN last.gateway.reply.obj

\* C26: for every reply that decodes to a JSON object with total_hours,
\* complexity, phases and reasoning, every ticket and every learning
\* history, estimate_with_ai returns an estimate with estimation_method
\* 'ai_powered': no stage raises and no fallback path is taken.
C26_WellFormedReplyIsAiPowered ==
    WellFormedReply
    => /\ last.path = "parsed"
       /\ \A k \in 1..Len(last.stages) : ~IsExc(last.stages[k])
       /\ last.estimate["estimation_method"] = "ai_powered"

\* The phases of an estimate that carry no hours.
ZeroHourPhases(estimate) == {p \in PhaseNames : estimate["phases"][p] = 0}

\* The estimates estimate_with_ai computes for the last request when the
\* cache holds nothing for it.
ComputedAfresh ==
    {EstimateWithAi(<< >>, history, client, last.description, last.jira_data,
                    gateway).estimate :
        gateway \in {g \in ServiceGateway : client \/ g.raises}}

\* C27: an estimate returned from the cache reflects the status of the
\* ticket of the request being served: the phases it reports without hours
\* are those an estimate computed for this request reports without hours,
\* never those of the status another request was filtered for.
C27_CacheHitReflectsRequest ==
    (last.op \in {"estimate", "estimate_with_ai"} /\ last.path = "cache_hit")
    => \E fresh \in ComputedAfresh :
          /\ ~IsExc(fresh)
          /\ ZeroHourPhases(last.estimate) = ZeroHourPhases(fresh)

\* C28: after any sequence of record_estimation and update_actual_hours
\* calls, those that raise included, every record with actual hours has
\* accuracy = |estimated_hours - actual_hours| / actual_hours, and
\* get_accuracy_stats and get_complexity_adjustments return a result.
C28_CompletedRecordsHaveAccuracy ==
    /\ \A i \in 1..Len(history) :
          history[i].actual_hours # NoHours
          => /\ history[i].actual_hours > 0
             /\ history[i].accuracy
                   = Frac(Abs(history[i].estimated_hours - history[i].actual_hours),
                          history[i].actual_hours)
    /\ last.op \in {"get_accuracy_stats", "get_complexity_adjustments"}
          => last.raised = None

\* C29: every submit_for_approval returns an approval id different from
\* every id pending or approved at the time of the call, so no pending
\* design is overwritten, and no id is both pending and approved.
C29_SubmissionGetsFreshId ==
    [][ /\ last'.op = "submit_for_approval"
           => /\ last'.ret \notin DOMAIN pending_designs \cup DOMAIN approved_designs
              /\ \A k \in DOMAIN pending_designs :
                    pending_designs'[k] = pending_designs[k]
        /\ DOMAIN pending_designs' \cap DOMAIN approved_designs' = {} ]_vars

====
